---------------------------- MODULE Spec2Model ----------------------------
(***************************************************************************)
(* Model of the editor engine's document model (engine/src/document.rs),  *)
(* of its layout engine (engine/src/layout.rs) and of the Engine calls     *)
(* that reach them (engine/src/lib.rs).                                    *)
(*                                                                         *)
(* Conventions.  Rust indices are 0-based and are kept 0-based in every    *)
(* operator argument and in every covered-by pointer; only the access      *)
(* into a TLA+ sequence adds 1.  Option<T> is a sequence of length <= 1:   *)
(* None is << >> and Some(v) is <<v>>.  A String is a sequence of          *)
(* one-character strings; where the layout reads it, of UTF-8 bytes.       *)
(* Lengths of the layout are whole pixels.                                 *)
(***************************************************************************)
EXTENDS Integers, Sequences, FiniteSets, TLC

VARIABLES
    table,      \* the DocumentTable under edit: [rows, column_widths]
    styles,     \* the style runs of the Paragraph under edit
    op,         \* the call in progress: [name, args, ret], or Idle
    pre,        \* [table, styles] as they were when that call was made
    document,       \* the Document laid out: [paragraphs, images, tables]
    config,         \* the LayoutConfig
    display_lines,  \* the display lines computed so far
    active_floats,  \* compute_layout's active floats
    list_counters,  \* compute_layout's list counters
    para_idx,       \* the paragraph compute_layout lays out next
    pc,             \* where compute_layout is: idle, paragraphs, done, aborted
    dirty           \* the Engine's flag: the display lines are stale

layoutVars ==
    <<document, config, display_lines, active_floats, list_counters, para_idx,
      pc, dirty>>

vars == <<table, styles, op, pre, layoutVars>>

(***************************************************************************)
(* Bounds of the model.                                                    *)
(***************************************************************************)
MaxRows == 2
MaxCols == 2
MaxText == 2
MaxLen  == 3
MaxParas   == 3
MaxChars   == 4
MaxColumns == 2
MaxEdits   == 2

None == << >>
Some(v) == <<v>>

Min(a, b) == IF a < b THEN a ELSE b
Max(a, b) == IF a > b THEN a ELSE b

\* Row / column arguments a caller may pass: every index of the largest
\* table and one index beyond it.
RowArgs == 0..MaxRows
ColArgs == 0..MaxCols

\* Character offsets a caller may pass as the ends of a style range.
Offsets == 0..MaxLen

\* Cell texts a caller may pass to set_cell_text.
\* Arguments of the position mappings, one past what a layout holds.
ParaArgs   == 0..MaxParas
LineArgs   == 0..(MaxParas + 1)
OffsetArgs == 0..(MaxChars + 1)

CellTexts == { << >>, <<"a">>, <<"b">> }

(***************************************************************************)
(* TableCell, TableRow, DocumentTable                                      *)
(***************************************************************************)
TableCellNew ==
    [ text           |-> << >>,
      background     |-> None,
      col_span       |-> 1,
      row_span       |-> 1,
      covered        |-> FALSE,
      covered_by_row |-> None,
      covered_by_col |-> None ]

is_merge_origin(cell) ==
    ~cell.covered /\ (cell.col_span > 1 \/ cell.row_span > 1)

\* A TableRow is modelled by its cells (min_height is read by layout only).
\* Of a cell's cosmetic fields only background is kept, because split_cell
\* writes it; styles and align are touched by no table operation.
TableRowNew(num_cols) == [j \in 1..num_cols |-> TableCellNew]

\* The f64 percentages held in column_widths are abstracted to the token
\* "w": the operations below read only the length of the array.
ColumnWidth == "w"

DocumentTableNew(num_rows, num_cols) ==
    [ rows          |-> [i \in 1..num_rows |-> TableRowNew(num_cols)],
      column_widths |-> [j \in 1..num_cols |-> ColumnWidth] ]

num_cols(t) == Len(t.column_widths)
num_rows(t) == Len(t.rows)

\* get_cell / get_cell_mut: Some(cell) when (row, col) names a cell.
HasCell(t, row, col) ==
    /\ row >= 0 /\ row < Len(t.rows)
    /\ col >= 0 /\ col < Len(t.rows[row + 1])

CellAt(t, row, col) == t.rows[row + 1][col + 1]

get_cell(t, row, col) ==
    IF HasCell(t, row, col) THEN Some(CellAt(t, row, col)) ELSE None

InsertAt(s, index, e) ==
    [k \in 1..(Len(s) + 1) |->
        IF k <= index THEN s[k] ELSE IF k = index + 1 THEN e ELSE s[k - 1]]

RemoveAt(s, index) ==
    [k \in 1..(Len(s) - 1) |-> IF k <= index THEN s[k] ELSE s[k + 1]]

add_row(t, at_index) ==
    LET index == Min(at_index, Len(t.rows))
    IN  [t EXCEPT !.rows = InsertAt(t.rows, index, TableRowNew(num_cols(t)))]

add_column(t, at_index) ==
    LET index == Min(at_index, num_cols(t))
    IN  [ rows          |-> [i \in 1..Len(t.rows) |->
                                InsertAt(t.rows[i], index, TableCellNew)],
          column_widths |-> InsertAt(t.column_widths, index, ColumnWidth) ]

\* Mutant of delete_row: the last row may be deleted too.
delete_row_unguarded(t, row) ==
    IF row < Len(t.rows)
    THEN [ret |-> TRUE, table |-> [t EXCEPT !.rows = RemoveAt(t.rows, row)]]
    ELSE [ret |-> FALSE, table |-> t]

delete_row(t, row) ==
    IF row < Len(t.rows) /\ Len(t.rows) > 1
    THEN [ret |-> TRUE, table |-> [t EXCEPT !.rows = RemoveAt(t.rows, row)]]
    ELSE [ret |-> FALSE, table |-> t]

delete_column(t, col) ==
    IF col < num_cols(t) /\ num_cols(t) > 1
    THEN [ret   |-> TRUE,
          table |-> [ rows |-> [i \in 1..Len(t.rows) |->
                                   IF col < Len(t.rows[i])
                                   THEN RemoveAt(t.rows[i], col)
                                   ELSE t.rows[i]],
                      column_widths |-> RemoveAt(t.column_widths, col) ]]
    ELSE [ret |-> FALSE, table |-> t]

(***************************************************************************)
(* merge_cells                                                             *)
(***************************************************************************)
\* The cells of start_row..=end_row x start_col..=end_col, in the order of
\* the nested loops (row-major).
RectCells(start_row, start_col, end_row, end_col) ==
    LET w == end_col - start_col + 1
        h == end_row - start_row + 1
    IN  [k \in 1..(h * w) |->
            <<start_row + ((k - 1) \div w), start_col + ((k - 1) % w)>>]

InRect(r, c, start_row, start_col, end_row, end_col) ==
    /\ start_row <= r /\ r <= end_row
    /\ start_col <= c /\ c <= end_col

\* Mutant of MergeBlocked: a cell covered from outside no longer blocks.
MergeBlockedIgnoringCovered(t, row_idx, col_idx, start_row, start_col, end_row, end_col) ==
    /\ HasCell(t, row_idx, col_idx)
    /\ LET cell == CellAt(t, row_idx, col_idx)
       IN  /\ is_merge_origin(cell)
           /\ \/ row_idx + cell.row_span - 1 > end_row
              \/ col_idx + cell.col_span - 1 > end_col

\* Mutant of MergeBlocked: an origin reaching outside no longer blocks.
MergeBlockedIgnoringOrigins(t, row_idx, col_idx, start_row, start_col, end_row, end_col) ==
    /\ HasCell(t, row_idx, col_idx)
    /\ LET cell == CellAt(t, row_idx, col_idx)
       IN  /\ cell.covered
           /\ cell.covered_by_row # None
           /\ cell.covered_by_col # None
           /\ \/ cell.covered_by_row[1] < start_row
              \/ cell.covered_by_col[1] < start_col

\* A cell of the rectangle that makes the validation loop return false.
MergeBlocked(t, row_idx, col_idx, start_row, start_col, end_row, end_col) ==
    /\ HasCell(t, row_idx, col_idx)
    /\ LET cell == CellAt(t, row_idx, col_idx)
       IN  \/ /\ cell.covered
              /\ cell.covered_by_row # None
              /\ cell.covered_by_col # None
              /\ \/ cell.covered_by_row[1] < start_row
                 \/ cell.covered_by_col[1] < start_col
           \/ /\ is_merge_origin(cell)
              /\ \/ row_idx + cell.row_span - 1 > end_row
                 \/ col_idx + cell.col_span - 1 > end_col

\* The origin cell (top-left) after a merge.
MergeOrigin(cell, combined_text, row_span, col_span) ==
    [cell EXCEPT !.text = combined_text,
                 !.row_span = row_span,
                 !.col_span = col_span,
                 !.covered = FALSE,
                 !.covered_by_row = None,
                 !.covered_by_col = None]

\* Mutant of MergeCover: the span of an absorbed cell is not reset.
MergeCoverKeepsSpan(cell, start_row, start_col) ==
    [cell EXCEPT !.text = << >>,
                 !.covered = TRUE,
                 !.covered_by_row = Some(start_row),
                 !.covered_by_col = Some(start_col)]

\* Any other cell of the merged region.
MergeCover(cell, start_row, start_col) ==
    [cell EXCEPT !.text = << >>,
                 !.covered = TRUE,
                 !.covered_by_row = Some(start_row),
                 !.covered_by_col = Some(start_col),
                 !.row_span = 1,
                 !.col_span = 1]

\* Mutant of CombineText: the texts are joined without a line break.
RECURSIVE CombineTextNoBreak(_, _, _, _)
CombineTextNoBreak(t, cells, k, combined_text) ==
    IF k > Len(cells) THEN combined_text
    ELSE LET row_idx == cells[k][1]
             col_idx == cells[k][2]
         IN  IF /\ HasCell(t, row_idx, col_idx)
                /\ ~CellAt(t, row_idx, col_idx).covered
                /\ CellAt(t, row_idx, col_idx).text # << >>
             THEN CombineTextNoBreak(t, cells, k + 1,
                      combined_text \o CellAt(t, row_idx, col_idx).text)
             ELSE CombineTextNoBreak(t, cells, k + 1, combined_text)

\* The text of the merged cell: the non-empty texts of the uncovered cells,
\* in loop order, separated by line breaks.
RECURSIVE CombineText(_, _, _, _)
CombineText(t, cells, k, combined_text) ==
    IF k > Len(cells) THEN combined_text
    ELSE LET row_idx == cells[k][1]
             col_idx == cells[k][2]
         IN  IF /\ HasCell(t, row_idx, col_idx)
                /\ ~CellAt(t, row_idx, col_idx).covered
                /\ CellAt(t, row_idx, col_idx).text # << >>
             THEN CombineText(t, cells, k + 1,
                      (IF combined_text # << >>
                       THEN Append(combined_text, "\n")
                       ELSE combined_text) \o CellAt(t, row_idx, col_idx).text)
             ELSE CombineText(t, cells, k + 1, combined_text)

merge_cells(t, start_row, start_col, end_row, end_col) ==
    IF end_row >= num_rows(t) \/ end_col >= num_cols(t)
    THEN [ret |-> FALSE, table |-> t]
    ELSE IF start_row > end_row \/ start_col > end_col
    THEN [ret |-> FALSE, table |-> t]
    ELSE IF \E row_idx \in start_row..end_row, col_idx \in start_col..end_col :
               MergeBlocked(t, row_idx, col_idx,
                            start_row, start_col, end_row, end_col)
    THEN [ret |-> FALSE, table |-> t]
    ELSE
      LET combined_text ==
              CombineText(t, RectCells(start_row, start_col, end_row, end_col),
                          1, << >>)
          row_span == end_row - start_row + 1
          col_span == end_col - start_col + 1
          NewCell(r, c) ==
              LET cell == CellAt(t, r, c)
              IN  IF ~InRect(r, c, start_row, start_col, end_row, end_col)
                  THEN cell
                  ELSE IF r = start_row /\ c = start_col
                  THEN MergeOrigin(cell, combined_text, row_span, col_span)
                  ELSE MergeCover(cell, start_row, start_col)
      IN  [ret   |-> TRUE,
           table |-> [t EXCEPT !.rows =
                        [i \in 1..Len(t.rows) |->
                            [j \in 1..Len(t.rows[i]) |-> NewCell(i - 1, j - 1)]]]]

(***************************************************************************)
(* split_cell, get_visible_cell                                            *)
(***************************************************************************)
\* Mutant of SplitUncover: the covered-by pointer is left behind.
SplitUncoverKeepsPointer(cell, background) ==
    [cell EXCEPT !.covered = FALSE,
                 !.background = background]

\* A cell of the region that a split uncovers; it takes the origin's background.
SplitUncover(cell, background) ==
    [cell EXCEPT !.covered = FALSE,
                 !.covered_by_row = None,
                 !.covered_by_col = None,
                 !.background = background]

split_cell(t, row, col) ==
    IF ~HasCell(t, row, col) THEN [ret |-> FALSE, table |-> t]
    ELSE IF ~is_merge_origin(CellAt(t, row, col))
    THEN [ret |-> FALSE, table |-> t]
    ELSE
      LET row_span   == CellAt(t, row, col).row_span
          col_span   == CellAt(t, row, col).col_span
          background == CellAt(t, row, col).background
          NewCell(r, c) ==
              LET cell == CellAt(t, r, c)
              IN  IF r = row /\ c = col
                  THEN [cell EXCEPT !.row_span = 1, !.col_span = 1]
                  ELSE IF InRect(r, c, row, col,
                                 row + row_span - 1, col + col_span - 1)
                  THEN SplitUncover(cell, background)
                  ELSE cell
      IN  [ret   |-> TRUE,
           table |-> [t EXCEPT !.rows =
                        [i \in 1..Len(t.rows) |->
                            [j \in 1..Len(t.rows[i]) |-> NewCell(i - 1, j - 1)]]]]

\* Some(<<origin_row, origin_col, cell>>) or None.
get_visible_cell(t, row, col) ==
    IF ~HasCell(t, row, col) THEN None
    ELSE LET cell == CellAt(t, row, col)
         IN  IF cell.covered
             THEN IF /\ cell.covered_by_row # None
                     /\ cell.covered_by_col # None
                     /\ HasCell(t, cell.covered_by_row[1], cell.covered_by_col[1])
                  THEN Some(<<cell.covered_by_row[1], cell.covered_by_col[1],
                              CellAt(t, cell.covered_by_row[1],
                                        cell.covered_by_col[1])>>)
                  ELSE None
             ELSE Some(<<row, col, cell>>)

\* Engine::set_cell_text on the table under edit.
set_cell_text(t, row, col, text) ==
    IF HasCell(t, row, col)
    THEN [t EXCEPT !.rows[row + 1][col + 1].text = text]
    ELSE t

(***************************************************************************)
(* TextStyle and Paragraph::apply_style                                    *)
(***************************************************************************)
TextStyleNew(start, end) ==
    [ start         |-> start,
      end           |-> end,
      bold          |-> FALSE,
      italic        |-> FALSE,
      underline     |-> FALSE,
      strikethrough |-> FALSE,
      color         |-> None,
      background    |-> None ]

has_formatting(style) ==
    \/ style.bold \/ style.italic \/ style.underline \/ style.strikethrough
    \/ style.color # None \/ style.background # None

overlaps(style, start, end) == style.start < end /\ style.end > start

\* The closures the Engine passes as `modifier` assign one field a value
\* fixed before the call (toggle_bold, set_text_color).  "toggle_italic"
\* stands for a closure whose result depends on the run it is given.
SetModifiers ==
    { [kind |-> "set_bold", value |-> b] : b \in BOOLEAN }
        \cup { [kind |-> "set_color", value |-> c] : c \in {None, Some("red")} }

ToggleModifiers == { [kind |-> "toggle_italic", value |-> TRUE] }

Modifiers == SetModifiers \cup ToggleModifiers

Modify(modifier, style) ==
    CASE modifier.kind = "set_bold"      -> [style EXCEPT !.bold = modifier.value]
      [] modifier.kind = "set_color"     -> [style EXCEPT !.color = modifier.value]
      [] modifier.kind = "set_italic"    -> [style EXCEPT !.italic = modifier.value]
      [] modifier.kind = "toggle_italic" -> [style EXCEPT !.italic = ~style.italic]

PushIfFormatted(new_styles, style) ==
    IF has_formatting(style) THEN Append(new_styles, style) ELSE new_styles

\* Mutant of SplitStyle: the part after the range keeps the run's old start.
SplitStyleAfterKeepsStart(new_styles, style, start, end, modifier) ==
    IF overlaps(style, start, end)
    THEN LET with_before == IF style.start < start
                            THEN Append(new_styles, [style EXCEPT !.end = start])
                            ELSE new_styles
             with_after  == IF style.end > end
                            THEN Append(with_before, style)
                            ELSE with_before
             overlap     == Modify(modifier,
                                [style EXCEPT !.start = Max(style.start, start),
                                              !.end   = Min(style.end, end)])
         IN  PushIfFormatted(with_after, overlap)
    ELSE Append(new_styles, style)

\* Mutant of SplitStyle: the part of the run before the range is not kept.
SplitStyleDropsBefore(new_styles, style, start, end, modifier) ==
    IF overlaps(style, start, end)
    THEN LET with_after  == IF style.end > end
                            THEN Append(new_styles, [style EXCEPT !.start = end])
                            ELSE new_styles
             overlap     == Modify(modifier,
                                [style EXCEPT !.start = Max(style.start, start),
                                              !.end   = Min(style.end, end)])
         IN  PushIfFormatted(with_after, overlap)
    ELSE Append(new_styles, style)

\* One turn of the loop over the existing runs: what the run contributes to
\* new_styles.
SplitStyle(new_styles, style, start, end, modifier) ==
    IF overlaps(style, start, end)
    THEN LET with_before == IF style.start < start
                            THEN Append(new_styles, [style EXCEPT !.end = start])
                            ELSE new_styles
             with_after  == IF style.end > end
                            THEN Append(with_before, [style EXCEPT !.start = end])
                            ELSE with_before
             overlap     == Modify(modifier,
                                [style EXCEPT !.start = Max(style.start, start),
                                              !.end   = Min(style.end, end)])
         IN  PushIfFormatted(with_after, overlap)
    ELSE Append(new_styles, style)

RECURSIVE SplitStyles(_, _, _, _, _, _)
SplitStyles(old_styles, k, start, end, modifier, new_styles) ==
    IF k > Len(old_styles) THEN new_styles
    ELSE SplitStyles(old_styles, k + 1, start, end, modifier,
                     SplitStyle(new_styles, old_styles[k], start, end, modifier))

\* sort_by_key: a stable sort of seq by the number keys[i] of its i-th element.
SortByKey(seq, keys) ==
    LET n == Len(seq)
        Rank(i) == 1 + Cardinality({ j \in 1..n :
                          \/ keys[j] < keys[i]
                          \/ keys[j] = keys[i] /\ j < i })
    IN  [p \in 1..n |-> seq[CHOOSE i \in 1..n : Rank(i) = p]]

\* The parts of [start, end) that new_styles holds a run for, by start.
Covered(new_styles, start, end) ==
    LET hit    == SelectSeq(new_styles, LAMBDA s : overlaps(s, start, end))
        ranges == [k \in 1..Len(hit) |->
                      <<Max(hit[k].start, start), Min(hit[k].end, end)>>]
    IN  SortByKey(ranges, [k \in 1..Len(ranges) |-> ranges[k][1]])

\* The loop over `covered` and the last gap after it: a fresh run, modified,
\* for every part of the range that no run covers.
RECURSIVE FillGaps(_, _, _, _, _, _)
FillGaps(covered, k, pos, end, modifier, new_styles) ==
    IF k > Len(covered)
    THEN IF pos < end
         THEN PushIfFormatted(new_styles, Modify(modifier, TextStyleNew(pos, end)))
         ELSE new_styles
    ELSE FillGaps(covered, k + 1, covered[k][2], end, modifier,
                  IF pos < covered[k][1]
                  THEN PushIfFormatted(new_styles,
                           Modify(modifier, TextStyleNew(pos, covered[k][1])))
                  ELSE new_styles)

SameFormatting(a, b) ==
    /\ a.bold = b.bold
    /\ a.italic = b.italic
    /\ a.underline = b.underline
    /\ a.strikethrough = b.strikethrough
    /\ a.color = b.color
    /\ a.background = b.background

RECURSIVE MergeAdjacent(_, _, _)
MergeAdjacent(sorted, k, result) ==
    IF k > Len(sorted) THEN result
    ELSE IF /\ result # << >>
            /\ result[Len(result)].end = sorted[k].start
            /\ SameFormatting(result[Len(result)], sorted[k])
    THEN MergeAdjacent(sorted, k + 1,
             [result EXCEPT ![Len(result)].end = sorted[k].end])
    ELSE MergeAdjacent(sorted, k + 1, Append(result, sorted[k]))

\* Mutant of merge_adjacent_styles: nothing is merged.
merge_adjacent_styles_never(sorted) == sorted

merge_adjacent_styles(sorted) == MergeAdjacent(sorted, 1, << >>)

apply_style(old_styles, start, end, modifier) ==
    IF start >= end THEN old_styles
    ELSE LET split  == SplitStyles(old_styles, 1, start, end, modifier, << >>)
             filled == FillGaps(Covered(split, start, end), 1, start, end,
                                modifier, split)
             sorted == SortByKey(filled,
                                 [k \in 1..Len(filled) |-> filled[k].start])
         IN  merge_adjacent_styles(sorted)

\* Paragraph::style_at: the first run that holds the position, if any.
style_at(runs, pos) ==
    LET hits == { k \in 1..Len(runs) : runs[k].start <= pos /\ runs[k].end > pos }
    IN  IF hits = {} THEN None
        ELSE Some(runs[CHOOSE k \in hits : \A j \in hits : k <= j])

\* Paragraph::styles_in_range: the runs that overlap the range.
styles_in_range(runs, start, end) ==
    LET Overlapping(style) == overlaps(style, start, end)
    IN  SelectSeq(runs, Overlapping)

\* Engine::toggle_bold on the runs of the paragraph: the value to set is
\* decided from the runs in the range before apply_style is called.
toggle_bold(old_styles, start, end) ==
    LET in_range == styles_in_range(old_styles, start, end)
        is_bold  == \A k \in 1..Len(in_range) : in_range[k].bold
    IN  apply_style(old_styles, start, end,
                    [kind |-> "set_bold", value |-> ~is_bold])

toggle_italic(old_styles, start, end) ==
    LET in_range  == styles_in_range(old_styles, start, end)
        is_italic == \A k \in 1..Len(in_range) : in_range[k].italic
    IN  apply_style(old_styles, start, end,
                    [kind |-> "set_italic", value |-> ~is_italic])

\* Engine::set_text_color: the empty string stands for no color.
set_text_color(old_styles, start, end, color) ==
    LET color_opt == IF color = "" THEN None ELSE Some(color)
    IN  apply_style(old_styles, start, end,
                    [kind |-> "set_color", value |-> color_opt])

(***************************************************************************)
(* Text as the layout sees it: a String is its sequence of UTF-8 bytes,    *)
(* and every offset of a display line is a byte offset.  "a", "b" and " "  *)
(* are one-byte characters; "C3" "A9" is the two-byte character U+00E9;    *)
(* "EF" "BF" followed by "BD", "BC" or "BB" is a three-byte marker.        *)
(***************************************************************************)
ContinuationBytes == {"A9", "BF", "BD", "BC", "BB"}

PageBreakMarker == <<"EF", "BF", "BD">>
ImageMarker     == <<"EF", "BF", "BC">>
TableMarker     == <<"EF", "BF", "BB">>
EAcute          == <<"C3", "A9">>

\* str::is_char_boundary
is_char_boundary(text, index) ==
    \/ index = 0
    \/ index = Len(text)
    \/ index < Len(text) /\ text[index + 1] \notin ContinuationBytes

\* A range index text[from..to] is defined only between character
\* boundaries; anywhere else it panics.
SliceOk(text, from, to) ==
    /\ from <= to /\ to <= Len(text)
    /\ is_char_boundary(text, from)
    /\ is_char_boundary(text, to)

Slice(text, from, to) == SubSeq(text, from + 1, to)

\* char::len_utf8 of the character that starts at byte `pos`
len_utf8(text, pos) ==
    CHOOSE n \in 1..(Len(text) - pos) :
        /\ is_char_boundary(text, pos + n)
        /\ \A m \in 1..(n - 1) : ~is_char_boundary(text, pos + m)

\* str::chars().count()
chars_count(text) ==
    Cardinality({ k \in 1..Len(text) : text[k] \notin ContinuationBytes })

starts_with(text, prefix) ==
    Len(text) >= Len(prefix) /\ SubSeq(text, 1, Len(prefix)) = prefix

\* The injected measurement capability: a monospace face whose glyphs are
\* half the font size wide, counted per character.
MeasureFn(text, font_size) == chars_count(text) * (font_size \div 2)

measure_text(text, font_size, letter_spacing) ==
    LET width   == MeasureFn(text, font_size)
        spacing == IF Len(text) > 1
                   THEN (chars_count(text) - 1) * letter_spacing
                   ELSE 0
    IN  width + spacing

(***************************************************************************)
(* Paragraph markers                                                       *)
(***************************************************************************)
ParagraphNew(text, list_type) ==
    [ text |-> text, meta |-> [ list_type |-> list_type, font_size |-> None ] ]

is_page_break(para) == para.text = PageBreakMarker

is_image(para) == starts_with(para.text, ImageMarker)

image_id(para) ==
    IF is_image(para) THEN Some(Slice(para.text, 3, Len(para.text))) ELSE None

is_table(para) == starts_with(para.text, TableMarker)

table_id(para) ==
    IF is_table(para) THEN Some(Slice(para.text, 3, Len(para.text))) ELSE None

DocumentNew ==
    [ paragraphs |-> << ParagraphNew(<< >>, "none") >>,
      images     |-> << >>,
      tables     |-> << >> ]

\* iter().find(|x| x.id == id)
FindById(items, id) ==
    LET hits == { k \in 1..Len(items) : items[k].id = id }
    IN  IF hits = {} THEN None
        ELSE Some(items[CHOOSE k \in hits : \A j \in hits : k <= j])

(***************************************************************************)
(* Images                                                                  *)
(***************************************************************************)
DocumentImageNew(id, width, height) ==
    [ id               |-> id,
      width            |-> width,
      height           |-> height,
      wrap_style       |-> "inline",
      horizontal_align |-> "left",
      position_mode    |-> "move-with-text",
      x                |-> None,
      y                |-> None,
      page_index       |-> None,
      crop_top         |-> 0,
      crop_bottom      |-> 0 ]

is_float(wrap_style) == wrap_style \in {"square", "tight", "through"}

cropped_height(image) ==
    (image.height * (100 - image.crop_top - image.crop_bottom)) \div 100

align_to_float_side(align) == IF align = "right" THEN "right" ELSE "left"

(***************************************************************************)
(* LayoutConfig.  Lengths are whole pixels.                                *)
(***************************************************************************)
LayoutConfigNew(page_width, page_height, columns) ==
    [ page_width        |-> page_width,
      page_height       |-> page_height,
      margin_top        |-> 1,
      margin_right      |-> 1,
      margin_bottom     |-> 1,
      margin_left       |-> 1,
      columns           |-> columns,
      column_gap        |-> 2,
      font_size         |-> 2,
      line_height       |-> 2,
      letter_spacing    |-> 0,
      paragraph_spacing |-> 1 ]

content_width(cfg) == cfg.page_width - cfg.margin_left - cfg.margin_right

content_height(cfg) == cfg.page_height - cfg.margin_top - cfg.margin_bottom

column_width(cfg) ==
    (content_width(cfg) - cfg.column_gap * (cfg.columns - 1)) \div cfg.columns

line_height_px(cfg) == cfg.font_size * cfg.line_height

\* ceil(a / b) for b > 0
CeilDiv(a, b) == (a + b - 1) \div b

(***************************************************************************)
(* Display lines                                                           *)
(***************************************************************************)
\* A DisplayLine as layout_paragraph first builds it.  image_height is kept
\* in pixels: the source stores it in line units, a quotient by
\* line_height_px that assign_page_positions multiplies back.  block_type
\* and table_layout are carried to the renderer and read by no layout step.
DisplayLineNew(idx, start_offset, end_offset, text) ==
    [ para_index      |-> idx,
      start_offset    |-> start_offset,
      end_offset      |-> end_offset,
      text            |-> text,
      page_index      |-> 0,
      column_index    |-> 0,
      x_position      |-> 0,
      y_position      |-> 0,
      is_page_break   |-> FALSE,
      is_image        |-> FALSE,
      image_id        |-> None,
      image_height    |-> None,
      list_number     |-> None,
      is_last_line    |-> TRUE,
      list_type       |-> "none",
      float_reduction |-> None,
      is_table        |-> FALSE,
      table_id        |-> None ]

\* The marker line of an image paragraph.
ImageLine(idx, para, id, height) ==
    [ DisplayLineNew(idx, 0, Len(para.text), << >>) EXCEPT
        !.is_image = TRUE, !.image_id = Some(id), !.image_height = Some(height) ]

\* The marker line of a table paragraph.
TableLine(idx, para, id, height) ==
    [ DisplayLineNew(idx, 0, Len(para.text), << >>) EXCEPT
        !.is_table = TRUE, !.table_id = Some(id), !.image_height = Some(height) ]

\* The pre-pass of compute_layout: floats with a fixed position.
RECURSIVE FixedFloats(_, _, _, _)
FixedFloats(images, k, cfg, floats) ==
    IF k > Len(images) THEN floats
    ELSE LET image == images[k]
             fixed == /\ is_float(image.wrap_style)
                      /\ image.position_mode = "fixed-position"
                      /\ image.y # None
             y           == image.y[1]
             x           == IF image.x = None THEN 0 ELSE image.x[1]
             image_width == Min(image.width, column_width(cfg))
             \* x + image_width / 2 < column_width / 2
             side == IF 2 * x + image_width < column_width(cfg)
                     THEN "left" ELSE "right"
             float == [ id         |-> image.id,
                        start_line |-> 0,
                        end_line   |-> 0,
                        width      |-> image_width,
                        side       |-> side,
                        page_index |-> image.page_index,
                        y_start    |-> Some(y),
                        y_end      |-> Some(y + cropped_height(image)),
                        x_position |-> Some(x) ]
         IN  FixedFloats(images, k + 1, cfg,
                         IF fixed THEN Append(floats, float) ELSE floats)

\* Mutant of FloatHits: a float with the text starts one line late.
FloatHitsLate(float, line_index, estimated_y, line_height) ==
    IF float.y_start # None /\ float.y_end # None
    THEN estimated_y < float.y_end[1] /\ estimated_y + line_height > float.y_start[1]
    ELSE line_index > float.start_line /\ line_index < float.end_line

\* Whether one float reaches the line.
FloatHits(float, line_index, estimated_y, line_height) ==
    IF float.y_start # None /\ float.y_end # None
    THEN estimated_y < float.y_end[1] /\ estimated_y + line_height > float.y_start[1]
    ELSE line_index >= float.start_line /\ line_index < float.end_line

get_float_reduction(floats, line_index, estimated_y, line_height, col_width) ==
    LET hits == { k \in 1..Len(floats) :
                    FloatHits(floats[k], line_index, estimated_y, line_height) }
    IN  IF hits = {} THEN None
        ELSE LET float == floats[CHOOSE k \in hits : \A j \in hits : k <= j]
                 fixed == float.y_start # None /\ float.y_end # None
                 float_x ==
                     IF fixed
                     THEN (IF float.x_position = None THEN 0
                           ELSE float.x_position[1])
                     ELSE (IF float.side = "left" THEN 0
                           ELSE col_width - float.width)
             IN  Some([ side    |-> float.side,
                        width   |-> float.width,
                        float_x |-> float_x ])

(***************************************************************************)
(* layout_paragraph                                                        *)
(***************************************************************************)
\* What one call of layout_paragraph leaves: its lines, the floats and list
\* counters it updated, or a panic.
Laid(lines, floats, counters) ==
    [ panic |-> FALSE, lines |-> lines, active_floats |-> floats,
      list_counters |-> counters ]

Panicked(floats, counters) ==
    [ panic |-> TRUE, lines |-> << >>, active_floats |-> floats,
      list_counters |-> counters ]

\* The list number of a paragraph and the counters after it.
ListNumbering(list_type, counters) ==
    CASE list_type = "numbered" ->
           LET num == (IF counters = << >> THEN 0
                       ELSE counters[Len(counters)]) + 1
           IN  [ list_number |-> Some(num),
                 list_counters |->
                     IF counters = << >> THEN << num >>
                     ELSE [counters EXCEPT ![Len(counters)] = num] ]
      [] list_type = "bullet" ->
           [ list_number |-> None, list_counters |-> counters ]
      [] list_type = "none" ->
           [ list_number |-> None, list_counters |-> << >> ]

\* Mutant of BreakPoint: spaces are not taken for word boundaries.
RECURSIVE BreakPointMidWord(_, _, _, _, _, _, _)
BreakPointMidWord(text, current_start, pos, last_word_boundary, line_end, available_width, measuring) ==
    IF pos >= Len(text) THEN [ panic |-> FALSE, line_end |-> line_end ]
    ELSE IF ~SliceOk(text, current_start, pos + 1)
         THEN [ panic |-> TRUE, line_end |-> line_end ]
         ELSE IF measure_text(Slice(text, current_start, pos + 1),
                              measuring.font_size, measuring.letter_spacing) > available_width
              THEN [ panic |-> FALSE, line_end |-> Max(pos, current_start + 1) ]
              ELSE BreakPointMidWord(text, current_start, pos + len_utf8(text, pos),
                                     last_word_boundary, pos + len_utf8(text, pos),
                                     available_width, measuring)

\* The break-point search: the loop over text[current_start..].char_indices(),
\* entered at byte `pos`.
RECURSIVE BreakPoint(_, _, _, _, _, _, _)
BreakPoint(text, current_start, pos, last_word_boundary, line_end, available_width, measuring) ==
    IF pos >= Len(text) THEN [ panic |-> FALSE, line_end |-> line_end ]
    ELSE IF ~SliceOk(text, current_start, pos + 1)
         \* &text[current_start..=pos] ends inside a multi-byte character
         THEN [ panic |-> TRUE, line_end |-> line_end ]
         ELSE LET width == measure_text(Slice(text, current_start, pos + 1),
                                        measuring.font_size, measuring.letter_spacing)
                  boundary == IF text[pos + 1] = " " THEN pos + 1
                              ELSE last_word_boundary
              IN  IF width > available_width
                  THEN [ panic |-> FALSE,
                         line_end |-> IF boundary > current_start THEN boundary
                                      ELSE Max(pos, current_start + 1) ]
                  ELSE BreakPoint(text, current_start, pos + len_utf8(text, pos),
                                  boundary, pos + len_utf8(text, pos),
                                  available_width, measuring)

\* A line of a text paragraph.
TextLine(cx, start_offset, end_offset, first, last, float_reduction) ==
    [ DisplayLineNew(cx.para_idx, start_offset, end_offset,
                     Slice(cx.text, start_offset, end_offset)) EXCEPT
        !.list_number     = IF first THEN cx.list_number ELSE None,
        !.is_last_line    = last,
        !.list_type       = cx.list_type,
        !.float_reduction = float_reduction ]

\* Mutant of MarkLast: the lines are left as the loop pushed them.
MarkLastSkipped(lines) == lines

MarkLast(lines) ==
    IF lines = << >> THEN lines
    ELSE [lines EXCEPT ![Len(lines)].is_last_line = TRUE]

\* The wrap loop of layout_paragraph, entered with `lines` already cut.
RECURSIVE WrapLines(_, _, _)
WrapLines(cx, current_start, lines) ==
    IF current_start >= Len(cx.text)
    THEN [ panic |-> FALSE, lines |-> MarkLast(lines) ]
    ELSE LET line_index  == cx.current_line_count + Len(lines)
             line_height == line_height_px(cx.config)
             estimated_y == line_index * line_height
             float_reduction ==
                 get_float_reduction(cx.active_floats, line_index, estimated_y,
                                     line_height, column_width(cx.config))
             float_width ==
                 IF float_reduction = None THEN 0
                 ELSE float_reduction[1].width + 10
             available_width == cx.base_available_width - float_width
             measuring == [ font_size      |-> cx.font_size,
                            letter_spacing |-> cx.config.letter_spacing ]
         IN  IF ~SliceOk(cx.text, current_start, Len(cx.text))
             THEN [ panic |-> TRUE, lines |-> lines ]
             ELSE IF measure_text(Slice(cx.text, current_start, Len(cx.text)),
                                  cx.font_size, cx.config.letter_spacing)
                         <= available_width
             THEN [ panic |-> FALSE,
                    lines |-> MarkLast(Append(lines,
                        TextLine(cx, current_start, Len(cx.text),
                                 lines = << >>, TRUE, float_reduction))) ]
             ELSE LET found == BreakPoint(cx.text, current_start, current_start,
                                          current_start, current_start,
                                          available_width, measuring)
                      line_end == IF found.line_end <= current_start
                                  THEN current_start + 1
                                  ELSE found.line_end
                  IN  IF found.panic \/ ~SliceOk(cx.text, current_start, line_end)
                      THEN [ panic |-> TRUE, lines |-> lines ]
                      ELSE WrapLines(cx, line_end, Append(lines,
                               TextLine(cx, current_start, line_end,
                                        lines = << >>, FALSE, float_reduction)))

\* str::split('\n'): the pieces between the newlines, with the piece `piece`
\* under way.
RECURSIVE SplitLines(_, _, _)
SplitLines(text, k, piece) ==
    IF k > Len(text) THEN << piece >>
    ELSE IF text[k] = "\n" THEN << piece >> \o SplitLines(text, k + 1, << >>)
    ELSE SplitLines(text, k + 1, Append(piece, text[k]))

\* The wrap loop of wrap_text_for_cell on one piece of the cell's text.
RECURSIVE WrapCellLines(_, _, _, _, _)
WrapCellLines(paragraph, current_start, max_width, measuring, all_lines) ==
    IF current_start >= Len(paragraph)
    THEN [ panic |-> FALSE, lines |-> all_lines ]
    ELSE IF ~SliceOk(paragraph, current_start, Len(paragraph))
    THEN [ panic |-> TRUE, lines |-> all_lines ]
    ELSE IF measure_text(Slice(paragraph, current_start, Len(paragraph)),
                         measuring.font_size, measuring.letter_spacing)
                <= max_width
    THEN [ panic |-> FALSE,
           lines |-> Append(all_lines,
                            Slice(paragraph, current_start, Len(paragraph))) ]
    ELSE LET found == BreakPoint(paragraph, current_start, current_start,
                                 current_start, current_start, max_width,
                                 measuring)
             line_end == IF found.line_end <= current_start
                         THEN current_start + 1
                         ELSE found.line_end
         IN  IF found.panic \/ ~SliceOk(paragraph, current_start, line_end)
             THEN [ panic |-> TRUE, lines |-> all_lines ]
             ELSE WrapCellLines(paragraph, line_end, max_width, measuring,
                                Append(all_lines,
                                       Slice(paragraph, current_start, line_end)))

\* The pieces from the k-th on, one after the other.
RECURSIVE WrapPieces(_, _, _, _, _)
WrapPieces(pieces, k, max_width, measuring, all_lines) ==
    IF k > Len(pieces) THEN [ panic |-> FALSE, lines |-> all_lines ]
    ELSE IF pieces[k] = << >>
    THEN WrapPieces(pieces, k + 1, max_width, measuring, Append(all_lines, << >>))
    ELSE LET wrapped == WrapCellLines(pieces[k], 0, max_width, measuring,
                                      all_lines)
         IN  IF wrapped.panic THEN wrapped
             ELSE WrapPieces(pieces, k + 1, max_width, measuring, wrapped.lines)

wrap_text_for_cell(text, max_width, font_size, cfg) ==
    IF text = << >> THEN [ panic |-> FALSE, lines |-> << << >> >> ]
    ELSE LET measuring == [ font_size      |-> font_size,
                            letter_spacing |-> cfg.letter_spacing ]
             wrapped == WrapPieces(SplitLines(text, 1, << >>), 1, max_width,
                                   measuring, << >>)
         IN  IF ~wrapped.panic /\ wrapped.lines = << >>
             THEN [ panic |-> FALSE, lines |-> << << >> >> ]
             ELSE wrapped

\* The lines of an image paragraph whose image is in the document.
ImageParagraph(idx, para, image, cfg, floats, counters, current_line_count) ==
    LET clamped_width == Min(image.width, column_width(cfg))
        line_height   == line_height_px(cfg)
        image_height  == cropped_height(image)
        float_lines   == IF image_height <= 0 THEN 0
                         ELSE CeilDiv(image_height, line_height)
        inline_image_lines == CeilDiv(image_height, line_height)
    IN  IF is_float(image.wrap_style) /\ image.position_mode = "move-with-text"
        THEN Laid(<< ImageLine(idx, para, image.id, 0) >>,
                  Append(floats,
                         [ id         |-> image.id,
                           start_line |-> current_line_count + 1,
                           end_line   |-> current_line_count + 1 + float_lines,
                           width      |-> clamped_width,
                           side       |-> align_to_float_side(image.horizontal_align),
                           page_index |-> None,
                           y_start    |-> None,
                           y_end      |-> None,
                           x_position |-> None ]),
                  counters)
        ELSE IF is_float(image.wrap_style) /\ image.position_mode = "fixed-position"
        THEN Laid(<< ImageLine(idx, para, image.id, 0) >>,
                  floats, counters)
        ELSE IF image.wrap_style \in {"behind", "in-front"}
        THEN Laid(<< ImageLine(idx, para, image.id, 0) >>,
                  floats, counters)
        ELSE Laid(<< ImageLine(idx, para, image.id,
                               inline_image_lines * line_height) >>,
                  floats, counters)

\* The lines of a paragraph laid out as text.
TextParagraph(idx, para, cfg, floats, counters, current_line_count) ==
    LET numbering == ListNumbering(para.meta.list_type, counters)
        font_size == IF para.meta.font_size = None THEN cfg.font_size
                     ELSE para.meta.font_size[1]
        list_indent == IF para.meta.list_type # "none"
                       THEN (font_size * 3) \div 2 ELSE 0
        line_height == line_height_px(cfg)
        cx == [ para_idx             |-> idx,
                text                 |-> para.text,
                list_type            |-> para.meta.list_type,
                list_number          |-> numbering.list_number,
                font_size            |-> font_size,
                base_available_width |-> column_width(cfg) - list_indent,
                active_floats        |-> floats,
                current_line_count   |-> current_line_count,
                config               |-> cfg ]
    IN  IF para.text = << >>
        THEN Laid(<< [ DisplayLineNew(idx, 0, 0, << >>) EXCEPT
                         !.list_number = numbering.list_number,
                         !.list_type   = para.meta.list_type,
                         !.float_reduction =
                             get_float_reduction(floats, current_line_count,
                                 current_line_count * line_height, line_height,
                                 column_width(cfg)) ] >>,
                  floats, numbering.list_counters)
        ELSE LET wrapped == WrapLines(cx, 0, << >>)
             IN  IF wrapped.panic
                 THEN Panicked(floats, numbering.list_counters)
                 ELSE Laid(wrapped.lines, floats, numbering.list_counters)

layout_paragraph(idx, para, doc, cfg, floats, counters, current_line_count) ==
    LET found_table == IF table_id(para) = None THEN None
                 ELSE FindById(doc.tables, table_id(para)[1])
        found_image == IF image_id(para) = None THEN None
                 ELSE FindById(doc.images, image_id(para)[1])
    IN  IF is_page_break(para)
        THEN Laid(<< [ DisplayLineNew(idx, 0, 1, << >>) EXCEPT
                         !.is_page_break = TRUE,
                         !.list_type     = para.meta.list_type ] >>,
                  floats, counters)
        ELSE IF found_table # None
        THEN Laid(<< TableLine(idx, para, found_table[1].id, found_table[1].total_height) >>,
                  floats, counters)
        ELSE IF found_image # None
        THEN ImageParagraph(idx, para, found_image[1], cfg, floats,
                            counters, current_line_count)
        ELSE TextParagraph(idx, para, cfg, floats, counters,
                           current_line_count)

(***************************************************************************)
(* assign_page_positions                                                   *)
(***************************************************************************)
\* Mutant of NextColumn: the last column wraps to column 0 of the same page.
NextColumnSamePage(current_page, current_column, cfg) ==
    IF cfg.columns > 1 /\ current_column < cfg.columns - 1
    THEN [ page |-> current_page, column |-> current_column + 1 ]
    ELSE [ page |-> current_page, column |-> 0 ]

\* Where an overflowing line goes: the next column, or the next page.
NextColumn(current_page, current_column, cfg) ==
    IF cfg.columns > 1 /\ current_column < cfg.columns - 1
    THEN [ page |-> current_page, column |-> current_column + 1 ]
    ELSE [ page |-> current_page + 1, column |-> 0 ]

this_line_height(dl, cfg) ==
    IF dl.is_image \/ dl.is_table
    THEN (IF dl.image_height = None THEN line_height_px(cfg)
          ELSE dl.image_height[1])
    ELSE line_height_px(cfg)

\* Mutant of spacing_after: every line is followed by paragraph spacing.
spacing_after_every_line(dl, cfg) == cfg.paragraph_spacing

spacing_after(dl, cfg) ==
    IF dl.is_last_line /\ this_line_height(dl, cfg) > 0
    THEN cfg.paragraph_spacing ELSE 0

\* Mutant of AssignFrom: a page break moves to the next page and keeps y.
RECURSIVE AssignFromKeepingY(_, _, _, _, _, _)
AssignFromKeepingY(lines, k, current_y, current_page, current_column, cfg) ==
    IF k > Len(lines) THEN lines
    ELSE LET dl == lines[k]
         IN  IF dl.is_page_break
             THEN AssignFromKeepingY(
                      [lines EXCEPT ![k] = [dl EXCEPT
                          !.page_index   = current_page,
                          !.y_position   = current_y,
                          !.column_index = current_column]],
                      k + 1, current_y, current_page + 1, 0, cfg)
             ELSE LET overflow == current_y + this_line_height(dl, cfg)
                                      > content_height(cfg)
                      moved == NextColumn(current_page, current_column, cfg)
                      page   == IF overflow THEN moved.page ELSE current_page
                      column == IF overflow THEN moved.column ELSE current_column
                      y      == IF overflow THEN 0 ELSE current_y
                  IN  AssignFromKeepingY(
                          [lines EXCEPT ![k] = [dl EXCEPT
                              !.page_index   = page,
                              !.column_index = column,
                              !.y_position   = y,
                              !.x_position   = cfg.margin_left
                                  + column * (column_width(cfg) + cfg.column_gap)]],
                          k + 1,
                          y + this_line_height(dl, cfg) + spacing_after(dl, cfg),
                          page, column, cfg)

RECURSIVE AssignFrom(_, _, _, _, _, _)
AssignFrom(lines, k, current_y, current_page, current_column, cfg) ==
    IF k > Len(lines) THEN lines
    ELSE LET dl == lines[k]
         IN  IF dl.is_page_break
             THEN AssignFrom(
                      [lines EXCEPT ![k] = [dl EXCEPT
                          !.page_index   = current_page,
                          !.y_position   = current_y,
                          !.column_index = current_column]],
                      k + 1, 0, current_page + 1, 0, cfg)
             ELSE LET overflow == current_y + this_line_height(dl, cfg)
                                      > content_height(cfg)
                      moved == NextColumn(current_page, current_column, cfg)
                      page   == IF overflow THEN moved.page ELSE current_page
                      column == IF overflow THEN moved.column ELSE current_column
                      y      == IF overflow THEN 0 ELSE current_y
                  IN  AssignFrom(
                          [lines EXCEPT ![k] = [dl EXCEPT
                              !.page_index   = page,
                              !.column_index = column,
                              !.y_position   = y,
                              !.x_position   = cfg.margin_left
                                  + column * (column_width(cfg) + cfg.column_gap)]],
                          k + 1,
                          y + this_line_height(dl, cfg) + spacing_after(dl, cfg),
                          page, column, cfg)

assign_page_positions(lines, cfg) == AssignFrom(lines, 1, 0, 0, 0, cfg)

\* The first pass: the paragraphs from idx on, one after the other.
RECURSIVE LayoutFrom(_, _, _, _, _, _)
LayoutFrom(doc, cfg, idx, lines, floats, counters) ==
    IF idx >= Len(doc.paragraphs) THEN [ panic |-> FALSE, lines |-> lines ]
    ELSE LET laid == layout_paragraph(idx, doc.paragraphs[idx + 1], doc, cfg,
                                      floats, counters, Len(lines))
         IN  IF laid.panic THEN [ panic |-> TRUE, lines |-> << >> ]
             ELSE LayoutFrom(doc, cfg, idx + 1, lines \o laid.lines,
                             laid.active_floats, laid.list_counters)

\* The display lines compute_layout returns, unless it panics.
compute_layout(doc, cfg) ==
    LET first == LayoutFrom(doc, cfg, 0, << >>,
                            FixedFloats(doc.images, 1, cfg, << >>), << >>)
    IN  IF first.panic THEN first
        ELSE [ panic |-> FALSE,
               lines |-> assign_page_positions(first.lines, cfg) ]

(***************************************************************************)
(* Position mapping                                                        *)
(***************************************************************************)
\* Mutant of para_to_display_pos: the end of a line's range is exclusive.
para_to_display_pos_exclusive(lines, para, offset) ==
    LET hits == { i \in 1..Len(lines) :
                    /\ lines[i].para_index = para
                    /\ offset >= lines[i].start_offset
                    /\ offset < lines[i].end_offset }
    IN  IF hits # {}
        THEN LET i == CHOOSE i \in hits : \A j \in hits : i <= j
             IN  [ line |-> i - 1, col |-> offset - lines[i].start_offset ]
        ELSE [ line |-> IF lines = << >> THEN 0 ELSE Len(lines) - 1,
               col  |-> IF lines = << >> THEN 0
                        ELSE Len(lines[Len(lines)].text) ]

\* Lines are counted from 0, as in the source.
para_to_display_pos(lines, para, offset) ==
    LET hits == { i \in 1..Len(lines) :
                    /\ lines[i].para_index = para
                    /\ offset >= lines[i].start_offset
                    /\ offset <= lines[i].end_offset }
    IN  IF hits # {}
        THEN LET i == CHOOSE i \in hits : \A j \in hits : i <= j
             IN  [ line |-> i - 1, col |-> offset - lines[i].start_offset ]
        ELSE [ line |-> IF lines = << >> THEN 0 ELSE Len(lines) - 1,
               col  |-> IF lines = << >> THEN 0
                        ELSE Len(lines[Len(lines)].text) ]

\* Mutant of display_to_para: the column is not clamped.
display_to_para_unclamped(lines, line, col) ==
    IF line >= Len(lines)
    THEN (IF lines # << >>
          THEN [ para   |-> lines[Len(lines)].para_index,
                 offset |-> lines[Len(lines)].end_offset ]
          ELSE [ para |-> 0, offset |-> 0 ])
    ELSE [ para   |-> lines[line + 1].para_index,
           offset |-> lines[line + 1].start_offset + col ]

\* Mutant of display_to_para: past the last line, the column is clamped into
\* the last line as it is on any other line.
display_to_para_clamped(lines, line, col) ==
    IF lines = << >> THEN [ para |-> 0, offset |-> 0 ]
    ELSE LET dl == lines[Min(line, Len(lines) - 1) + 1]
         IN  [ para   |-> dl.para_index,
               offset |-> dl.start_offset + Min(col, Len(dl.text)) ]

display_to_para(lines, line, col) ==
    IF line >= Len(lines)
    THEN (IF lines # << >>
          THEN [ para   |-> lines[Len(lines)].para_index,
                 offset |-> lines[Len(lines)].end_offset ]
          ELSE [ para |-> 0, offset |-> 0 ])
    ELSE LET dl == lines[line + 1]
             clamped_col == Min(col, Len(dl.text))
         IN  [ para   |-> dl.para_index,
               offset |-> dl.start_offset + clamped_col ]

get_page_for_position(lines, para, offset) ==
    LET pos == para_to_display_pos(lines, para, offset)
    IN  IF pos.line < Len(lines) THEN lines[pos.line + 1].page_index ELSE 0

(***************************************************************************)
(* The Engine's calls on its document                                      *)
(***************************************************************************)
\* Vec::insert at index, or push when the index is at or past the end.
InsertOrPush(paragraphs, index, para) ==
    IF index >= Len(paragraphs) THEN Append(paragraphs, para)
    ELSE InsertAt(paragraphs, index, para)

\* format!("{}", n): the decimal digits of n.
RECURSIVE Decimal(_)
Decimal(n) ==
    LET digit == <<"0", "1", "2", "3", "4", "5", "6", "7", "8", "9">>[(n % 10) + 1]
    IN  IF n < 10 THEN << digit >> ELSE Append(Decimal(n \div 10), digit)

\* The id create_table gives a table when the document holds n tables.
TableIdFor(n) == <<"t", "a", "b", "l", "e", "_">> \o Decimal(n)

\* Engine::create_table: the tables of the document after it, and the id it
\* returns.  Of the table only the id and the height of its layout are kept.
create_table(tables, rows, cols) ==
    LET id == TableIdFor(Len(tables))
    IN  [ tables |-> Append(tables, [ id |-> id, total_height |-> 5 ]),
          ret    |-> id ]

\* The texts handed to load_document, and what serde_json decodes them to:
\* two are not the JSON of a Document.
JsonTexts == { "", "{", "text", "image" }

from_str(json) ==
    CASE json = "text" ->
           Some([ paragraphs |-> << ParagraphNew(<<"a">>, "none") >>,
                  images     |-> << >>,
                  tables     |-> << >> ])
      [] json = "image" ->
           Some([ paragraphs |-> << ParagraphNew(ImageMarker \o <<"i">>, "none") >>,
                  images     |-> << DocumentImageNew(<<"i">>, 1, 2) >>,
                  tables     |-> << >> ])
      [] OTHER -> None

\* Mutant of load_document: a text that does not decode empties the document.
load_document_resetting(doc, is_dirty, json) ==
    LET decoded == from_str(json)
    IN  IF decoded # None
        THEN [ document |-> decoded[1], dirty |-> TRUE, ret |-> TRUE ]
        ELSE [ document |-> DocumentNew, dirty |-> TRUE, ret |-> FALSE ]

\* The Engine's document and dirty flag after load_document, and whether
\* its result is Ok.
load_document(doc, is_dirty, json) ==
    LET decoded == from_str(json)
    IN  IF decoded # None
        THEN [ document |-> decoded[1], dirty |-> TRUE, ret |-> TRUE ]
        ELSE [ document |-> doc, dirty |-> is_dirty, ret |-> FALSE ]

(***************************************************************************)
(* The document as a state machine: one action per call.                   *)
(***************************************************************************)
RECURSIVE SumLen(_, _)
SumLen(s, k) == IF k > Len(s) THEN 0 ELSE Len(s[k].text) + SumLen(s, k + 1)

RECURSIVE TotalText(_, _)
TotalText(t, i) ==
    IF i > Len(t.rows) THEN 0 ELSE SumLen(t.rows[i], 1) + TotalText(t, i + 1)

\* No call is in progress: the application is free to issue the next one.
Idle == [name |-> "idle", args |-> << >>, ret |-> TRUE]

Snapshot == [table |-> table, styles |-> styles]

\* No layout is asked for: the document is the one Document::new builds.
LayoutOff ==
    /\ document = DocumentNew
    /\ config = LayoutConfigNew(10, 10, 1)
    /\ display_lines = << >>
    /\ active_floats = << >>
    /\ list_counters = << >>
    /\ para_idx = 0
    /\ pc = "idle"
    /\ dirty = TRUE

Init ==
    /\ \E nr \in 1..MaxRows, nc \in 1..MaxCols : table = DocumentTableNew(nr, nc)
    /\ styles = << >>
    /\ op = Idle
    /\ pre = Snapshot
    /\ LayoutOff

\* The caller has looked at the result of the last call; its record is dropped.
Return ==
    /\ op.name # "idle"
    /\ op' = Idle
    /\ pre' = Snapshot
    /\ UNCHANGED <<table, styles, layoutVars>>

MergeCells ==
    /\ op.name = "idle"
    /\ \E r0 \in RowArgs, c0 \in ColArgs, r1 \in RowArgs, c1 \in ColArgs :
        LET res == merge_cells(table, r0, c0, r1, c1)
        IN  /\ table' = res.table
            /\ op' = [name |-> "merge_cells", args |-> <<r0, c0, r1, c1>>,
                      ret |-> res.ret]
            /\ pre' = Snapshot
        /\ UNCHANGED <<styles, layoutVars>>

SplitCell ==
    /\ op.name = "idle"
    /\ \E r \in RowArgs, c \in ColArgs :
        LET res == split_cell(table, r, c)
        IN  /\ table' = res.table
            /\ op' = [name |-> "split_cell", args |-> <<r, c>>, ret |-> res.ret]
            /\ pre' = Snapshot
        /\ UNCHANGED <<styles, layoutVars>>

\* The text held by a table is capped at MaxText characters in all.
SetCellText ==
    /\ op.name = "idle"
    /\ \E r \in RowArgs, c \in ColArgs, text \in CellTexts :
        /\ TotalText(set_cell_text(table, r, c, text), 1) <= MaxText
        /\ table' = set_cell_text(table, r, c, text)
        /\ op' = [name |-> "set_cell_text", args |-> <<r, c, text>>,
                  ret |-> TRUE]
        /\ pre' = Snapshot
        /\ UNCHANGED <<styles, layoutVars>>

\* add_row / add_column return nothing; ret is TRUE.  Growth is capped at
\* MaxRows x MaxCols.
AddRow ==
    /\ op.name = "idle"
    /\ \E at \in RowArgs :
        /\ num_rows(table) < MaxRows
        /\ table' = add_row(table, at)
        /\ op' = [name |-> "add_row", args |-> <<at>>, ret |-> TRUE]
        /\ pre' = Snapshot
        /\ UNCHANGED <<styles, layoutVars>>

AddColumn ==
    /\ op.name = "idle"
    /\ \E at \in ColArgs :
        /\ num_cols(table) < MaxCols
        /\ table' = add_column(table, at)
        /\ op' = [name |-> "add_column", args |-> <<at>>, ret |-> TRUE]
        /\ pre' = Snapshot
        /\ UNCHANGED <<styles, layoutVars>>

DeleteRow ==
    /\ op.name = "idle"
    /\ \E r \in RowArgs :
        LET res == delete_row(table, r)
        IN  /\ table' = res.table
            /\ op' = [name |-> "delete_row", args |-> <<r>>, ret |-> res.ret]
            /\ pre' = Snapshot
        /\ UNCHANGED <<styles, layoutVars>>

DeleteColumn ==
    /\ op.name = "idle"
    /\ \E c \in ColArgs :
        LET res == delete_column(table, c)
        IN  /\ table' = res.table
            /\ op' = [name |-> "delete_column", args |-> <<c>>, ret |-> res.ret]
            /\ pre' = Snapshot
        /\ UNCHANGED <<styles, layoutVars>>

ApplyStyle ==
    /\ op.name = "idle"
    /\ \E start \in Offsets, end \in Offsets, modifier \in Modifiers :
        /\ styles' = apply_style(styles, start, end, modifier)
        /\ op' = [name |-> "apply_style", args |-> <<start, end, modifier>>,
                  ret |-> TRUE]
        /\ pre' = Snapshot
        /\ UNCHANGED <<table, layoutVars>>

\* The Engine's calls on the runs of a paragraph.
ToggleBold ==
    /\ op.name = "idle"
    /\ \E start \in Offsets, end \in Offsets :
        /\ styles' = toggle_bold(styles, start, end)
        /\ op' = [name |-> "toggle_bold", args |-> <<start, end>>, ret |-> TRUE]
    /\ pre' = Snapshot
    /\ UNCHANGED <<table, layoutVars>>

ToggleItalic ==
    /\ op.name = "idle"
    /\ \E start \in Offsets, end \in Offsets :
        /\ styles' = toggle_italic(styles, start, end)
        /\ op' = [name |-> "toggle_italic", args |-> <<start, end>>, ret |-> TRUE]
    /\ pre' = Snapshot
    /\ UNCHANGED <<table, layoutVars>>

SetTextColor ==
    /\ op.name = "idle"
    /\ \E start \in Offsets, end \in Offsets, color \in {"", "red"} :
        /\ styles' = set_text_color(styles, start, end, color)
        /\ op' = [name |-> "set_text_color", args |-> <<start, end, color>>,
                  ret |-> TRUE]
    /\ pre' = Snapshot
    /\ UNCHANGED <<table, layoutVars>>

(***************************************************************************)
(* Layout as a state machine: compute_layout runs paragraph by paragraph,  *)
(* then assigns pages; once it has returned, positions are mapped through  *)
(* the display lines it left.                                              *)
(***************************************************************************)
\* Engine::recompute_layout finds the layout stale and enters
\* compute_layout: the pre-pass.
ComputeLayout ==
    /\ pc \in {"idle", "done"}
    /\ dirty
    /\ op.name = "idle"
    /\ display_lines' = << >>
    /\ active_floats' = FixedFloats(document.images, 1, config, << >>)
    /\ list_counters' = << >>
    /\ para_idx' = 0
    /\ pc' = "paragraphs"
    /\ UNCHANGED <<table, styles, op, pre, document, config, dirty>>

\* One turn of the first pass: the next paragraph is laid out, or panics.
LayoutParagraph ==
    /\ pc = "paragraphs"
    /\ para_idx < Len(document.paragraphs)
    /\ LET laid == layout_paragraph(para_idx, document.paragraphs[para_idx + 1],
                                    document, config, active_floats,
                                    list_counters, Len(display_lines))
       IN  /\ active_floats' = laid.active_floats
           /\ list_counters' = laid.list_counters
           /\ display_lines' = display_lines \o laid.lines
           /\ pc' = IF laid.panic THEN "aborted" ELSE "paragraphs"
    /\ para_idx' = para_idx + 1
    /\ UNCHANGED <<table, styles, op, pre, document, config, dirty>>

\* The second pass, after which compute_layout returns and the Engine holds
\* a fresh layout.
AssignPagePositions ==
    /\ pc = "paragraphs"
    /\ para_idx = Len(document.paragraphs)
    /\ display_lines' = assign_page_positions(display_lines, config)
    /\ pc' = "done"
    /\ dirty' = FALSE
    /\ UNCHANGED <<table, styles, op, pre, document, config, active_floats,
                   list_counters, para_idx>>

\* Positions are mapped through the display lines the Engine holds: none
\* before the first layout, the computed ones after it.
ParaToDisplayPos ==
    /\ pc \in {"idle", "done"}
    /\ op.name = "idle"
    /\ \E para \in ParaArgs, offset \in OffsetArgs :
        op' = [name |-> "para_to_display_pos", args |-> <<para, offset>>,
               ret |-> para_to_display_pos(display_lines, para, offset)]
    /\ pre' = Snapshot
    /\ UNCHANGED <<table, styles, layoutVars>>

DisplayToPara ==
    /\ pc \in {"idle", "done"}
    /\ op.name = "idle"
    /\ \E line \in LineArgs, col \in OffsetArgs :
        op' = [name |-> "display_to_para", args |-> <<line, col>>,
               ret |-> display_to_para(display_lines, line, col)]
    /\ pre' = Snapshot
    /\ UNCHANGED <<table, styles, layoutVars>>

GetPageForPosition ==
    /\ pc \in {"idle", "done"}
    /\ op.name = "idle"
    /\ \E para \in ParaArgs, offset \in OffsetArgs :
        op' = [name |-> "get_page_for_position", args |-> <<para, offset>>,
               ret |-> get_page_for_position(display_lines, para, offset)]
    /\ pre' = Snapshot
    /\ UNCHANGED <<table, styles, layoutVars>>

(***************************************************************************)
(* The Engine: calls that edit the document or the configuration, between  *)
(* calls of recompute_layout.  No call is made while another is running.   *)
(***************************************************************************)
EngineReady == pc \in {"idle", "done"} /\ op.name = "idle"

EngineTexts == { << >>, <<"a">> }

\* recompute_layout when the layout is not marked stale: nothing is computed.
RecomputeLayoutClean ==
    /\ EngineReady
    /\ ~dirty
    /\ op' = [name |-> "recompute_layout", args |-> << >>, ret |-> FALSE]
    /\ pre' = Snapshot
    /\ UNCHANGED <<table, styles, layoutVars>>

SetParagraph ==
    /\ EngineReady
    /\ \E index \in 0..MaxEdits, text \in EngineTexts :
        IF index < Len(document.paragraphs)
        THEN /\ document' = [document EXCEPT !.paragraphs[index + 1].text = text]
             /\ dirty' = TRUE
        ELSE UNCHANGED <<document, dirty>>
    /\ UNCHANGED <<table, styles, op, pre, config, display_lines, active_floats,
                   list_counters, para_idx, pc>>

InsertParagraph ==
    /\ EngineReady
    /\ Len(document.paragraphs) < MaxEdits
    /\ \E index \in 0..MaxEdits, text \in EngineTexts :
        document' = [document EXCEPT !.paragraphs =
                        InsertOrPush(@, index, ParagraphNew(text, "none"))]
    /\ dirty' = TRUE
    /\ UNCHANGED <<table, styles, op, pre, config, display_lines, active_floats,
                   list_counters, para_idx, pc>>

DeleteParagraph ==
    /\ EngineReady
    /\ \E index \in 0..MaxEdits :
        IF index < Len(document.paragraphs)
        THEN /\ document' = [document EXCEPT !.paragraphs = RemoveAt(@, index)]
             /\ dirty' = TRUE
        ELSE UNCHANGED <<document, dirty>>
    /\ UNCHANGED <<table, styles, op, pre, config, display_lines, active_floats,
                   list_counters, para_idx, pc>>

\* Images are added and referred to under the id "i".
AddImage ==
    /\ EngineReady
    /\ Len(document.images) < MaxEdits
    /\ document' = [document EXCEPT !.images =
                        Append(@, DocumentImageNew(<<"i">>, 1, 2))]
    /\ UNCHANGED <<table, styles, op, pre, config, display_lines, active_floats,
                   list_counters, para_idx, pc, dirty>>

InsertImageParagraph ==
    /\ EngineReady
    /\ Len(document.paragraphs) < MaxEdits
    /\ \E index \in 0..MaxEdits :
        document' = [document EXCEPT !.paragraphs =
                        InsertOrPush(@, index,
                                     ParagraphNew(ImageMarker \o <<"i">>, "none"))]
    /\ dirty' = TRUE
    /\ UNCHANGED <<table, styles, op, pre, config, display_lines, active_floats,
                   list_counters, para_idx, pc>>

DeleteImage ==
    /\ EngineReady
    /\ LET id == <<"i">>
           OtherImage(img) == img.id # id
           NotOfImage(p) == image_id(p) = None \/ image_id(p)[1] # id
       IN  document' = [document EXCEPT !.images = SelectSeq(@, OtherImage),
                                        !.paragraphs = SelectSeq(@, NotOfImage)]
    /\ dirty' = TRUE
    /\ UNCHANGED <<table, styles, op, pre, config, display_lines, active_floats,
                   list_counters, para_idx, pc>>

\* The page is set to one or two columns; the other settings are passed as
\* they are.
SetPageConfig ==
    /\ EngineReady
    /\ \E columns \in 1..MaxColumns :
        config' = [config EXCEPT !.columns = columns]
    /\ dirty' = TRUE
    /\ UNCHANGED <<table, styles, op, pre, document, display_lines,
                   active_floats, list_counters, para_idx, pc>>

LoadDocument ==
    /\ EngineReady
    /\ \E json \in JsonTexts :
        LET loaded == load_document(document, dirty, json)
        IN  /\ document' = loaded.document
            /\ dirty' = loaded.dirty
            /\ op' = [name |-> "load_document", args |-> <<json>>,
                      ret |-> loaded.ret]
    /\ pre' = Snapshot
    /\ UNCHANGED <<table, styles, config, display_lines, active_floats,
                   list_counters, para_idx, pc>>

CreateTable ==
    /\ EngineReady
    /\ Len(document.tables) < MaxEdits
    /\ \E rows \in 1..MaxRows, cols \in 1..MaxCols :
        LET created == create_table(document.tables, rows, cols)
        IN  /\ document' = [document EXCEPT !.tables = created.tables]
            /\ op' = [name |-> "create_table", args |-> <<rows, cols>>,
                      ret |-> created.ret]
    /\ dirty' = TRUE
    /\ pre' = Snapshot
    /\ UNCHANGED <<table, styles, config, display_lines, active_floats,
                   list_counters, para_idx, pc>>

\* The ids a caller can hold: those create_table has returned.
TableIds == { TableIdFor(n) : n \in 0..(MaxEdits - 1) }

InsertTableParagraph ==
    /\ EngineReady
    /\ Len(document.paragraphs) < MaxParas
    /\ \E index \in 0..MaxEdits, id \in TableIds :
        LET idx == Min(index, Len(document.paragraphs))
        IN  document' = [document EXCEPT !.paragraphs =
                            InsertAt(@, idx, ParagraphNew(TableMarker \o id, "none"))]
    /\ dirty' = TRUE
    /\ UNCHANGED <<table, styles, op, pre, config, display_lines, active_floats,
                   list_counters, para_idx, pc>>

DeleteTable ==
    /\ EngineReady
    /\ \E id \in TableIds :
        LET OtherTable(t) == t.id # id
            NotOfTable(p) == table_id(p) = None \/ table_id(p)[1] # id
        IN  document' = [document EXCEPT !.tables = SelectSeq(@, OtherTable),
                                         !.paragraphs = SelectSeq(@, NotOfTable)]
    /\ dirty' = TRUE
    /\ UNCHANGED <<table, styles, op, pre, config, display_lines, active_floats,
                   list_counters, para_idx, pc>>

\* Merge and split only, on a table of fixed size.
NextMerge == MergeCells \/ SplitCell \/ Return

SpecMerge == Init /\ [][NextMerge]_vars

\* Merge and split on a table whose cells carry text.
NextText == MergeCells \/ SplitCell \/ SetCellText \/ Return

SpecText == Init /\ [][NextText]_vars

\* Every edit of the grid: rows and columns come and go between merges.
NextEdit ==
    \/ MergeCells
    \/ SplitCell
    \/ AddRow
    \/ AddColumn
    \/ DeleteRow
    \/ DeleteColumn
    \/ Return

SpecEdit == Init /\ [][NextEdit]_vars

\* Deletions only, between merges, on tables of every initial size.
NextDelete == MergeCells \/ DeleteRow \/ DeleteColumn \/ Return

SpecDelete == Init /\ [][NextDelete]_vars

\* A paragraph without style runs, restyled over and over.
InitStyle ==
    /\ table = DocumentTableNew(1, 1)
    /\ styles = << >>
    /\ op = Idle
    /\ pre = Snapshot
    /\ LayoutOff

NextStyle == ApplyStyle \/ Return

SpecStyle == InitStyle /\ [][NextStyle]_vars

\* The formatting calls of the Engine on one paragraph.
NextToggle == ToggleBold \/ ToggleItalic \/ SetTextColor \/ Return

SpecToggle == InitStyle /\ [][NextToggle]_vars

(***************************************************************************)
(* Documents and configurations the layout is run on.                      *)
(***************************************************************************)
\* A configuration whose columns are `width` wide and `height` high.
ConfigFor(width, height, columns) ==
    LayoutConfigNew(width * columns + 2 * (columns - 1) + 2, height + 2, columns)

\* Sequences of 1..n elements of S
SeqUpTo(S, n) == UNION { [1..k -> S] : k \in 1..n }

\* The layout state before compute_layout is first called.
LayoutOf(doc, cfg) ==
    /\ table = DocumentTableNew(1, 1)
    /\ styles = << >>
    /\ op = Idle
    /\ pre = Snapshot
    /\ document = doc
    /\ config = cfg
    /\ display_lines = << >>
    /\ active_floats = << >>
    /\ list_counters = << >>
    /\ para_idx = 0
    /\ pc = "idle"
    /\ dirty = TRUE

NextLayout == ComputeLayout \/ LayoutParagraph \/ AssignPagePositions

\* Ids are strings of one byte.  Image "i" and table "t" are in the document;
\* "j" and "u" name nothing.
InlineImage == [ DocumentImageNew(<<"i">>, 3, 6) EXCEPT !.wrap_style = "top-bottom" ]

PlacedTable == [ id |-> <<"t">>, total_height |-> 5 ]

MixedParagraphs ==
    { ParagraphNew(<< >>, "none"),
      ParagraphNew(<<"a">>, "none"),
      ParagraphNew(<<"a">>, "bullet"),
      ParagraphNew(<<"a">>, "numbered"),
      ParagraphNew(<<"a", " ", "a">>, "numbered"),
      ParagraphNew(<<"a">> \o EAcute, "none"),
      ParagraphNew(PageBreakMarker, "none"),
      ParagraphNew(ImageMarker \o <<"i">>, "none"),
      ParagraphNew(ImageMarker \o <<"j">>, "none"),
      ParagraphNew(TableMarker \o <<"t">>, "none"),
      ParagraphNew(TableMarker \o <<"u">>, "none") }

MixedConfigs == { ConfigFor(w, 8, c) : w \in {1, 5}, c \in 1..MaxColumns }

\* Documents of every mix of paragraph kinds, in narrow and wide columns
\* two lines high.
InitLayout ==
    \E paragraphs \in SeqUpTo(MixedParagraphs, MaxParas), cfg \in MixedConfigs :
        LayoutOf([ paragraphs |-> paragraphs,
                   images     |-> << InlineImage >>,
                   tables     |-> << PlacedTable >> ], cfg)

SpecLayout == InitLayout /\ [][NextLayout]_vars

\* One paragraph of words and spaces, wrapped in columns of one to six
\* glyphs; in the narrow ones a list indent leaves less than a glyph.
HelloWorld == <<"H", "e", "l", "l", "o", " ", "W", "o", "r", "l", "d">>

WrapTexts == SeqUpTo({"a", " "}, MaxChars) \cup {HelloWorld}

WrapWidths == {1, 2, 3, 6}

InitWrap ==
    \E text \in WrapTexts, list_type \in {"none", "bullet"}, w \in WrapWidths :
        LayoutOf([ paragraphs |-> << ParagraphNew(text, list_type) >>,
                   images     |-> << >>,
                   tables     |-> << >> ], ConfigFor(w, 40, 1))

SpecWrap == InitWrap /\ [][NextLayout]_vars

\* compute_table_layout wraps the text of a cell to the width of the cell's
\* content, which is negative in a column narrower than the cell padding.
CellWrapTexts ==
    { << >> } \cup SeqUpTo({"a", " ", "\n"}, MaxLen)
        \cup { EAcute, <<"a">> \o EAcute }

CellWrapWidths == {-1, 0, 1, 2}

WrapTextForCell ==
    /\ pc = "idle"
    /\ op.name = "idle"
    /\ \E text \in CellWrapTexts, max_width \in CellWrapWidths :
        op' = [name |-> "wrap_text_for_cell", args |-> <<text, max_width>>,
               ret |-> wrap_text_for_cell(text, max_width, config.font_size,
                                          config)]
    /\ pre' = Snapshot
    /\ UNCHANGED <<table, styles, layoutVars>>

\* Texts wrapped in columns where nothing fits, as paragraphs and as cells;
\* some hold a two-byte character.
WrapAnyTexts == SeqUpTo({"a", " "}, MaxLen) \cup { EAcute, <<"a">> \o EAcute }

InitWrapAny ==
    \E text \in WrapAnyTexts, list_type \in {"none", "bullet"}, w \in {0, 1, 2} :
        LayoutOf([ paragraphs |-> << ParagraphNew(text, list_type) >>,
                   images     |-> << >>,
                   tables     |-> << >> ], ConfigFor(w, 40, 1))

NextWrapAny == NextLayout \/ WrapTextForCell \/ Return

SpecWrapAny == InitWrapAny /\ [][NextWrapAny]_vars

\* Floating images among text.  Image "i" floats with the text; "j" is a
\* second such float or a float at a fixed position, when present.
FloatImages ==
    { [ DocumentImageNew(<<"i">>, w, h) EXCEPT
          !.wrap_style = "square", !.crop_top = crop ] :
        w \in {1, 2}, h \in {0, 4, 6}, crop \in {0, 50} }

SecondImages ==
    { [ DocumentImageNew(<<"j">>, 3, 8) EXCEPT
          !.wrap_style = "tight", !.horizontal_align = "right" ],
      [ DocumentImageNew(<<"j">>, 3, 4) EXCEPT
          !.wrap_style = "through", !.position_mode = "fixed-position",
          !.y = Some(4) ] }

FloatParagraphs ==
    { ParagraphNew(<< >>, "none"),
      ParagraphNew(<<"a">>, "none"),
      ParagraphNew(<<"a", "a", "a", "a", "a">>, "none"),
      ParagraphNew(ImageMarker \o <<"i">>, "none"),
      ParagraphNew(ImageMarker \o <<"j">>, "none") }

InitFloat ==
    \E paragraphs \in SeqUpTo(FloatParagraphs, MaxParas),
       image \in FloatImages,
       others \in { << >> } \cup { << j >> : j \in SecondImages } :
        LayoutOf([ paragraphs |-> paragraphs,
                   images     |-> << image >> \o others,
                   tables     |-> << >> ], ConfigFor(14, 40, 1))

SpecFloat == InitFloat /\ [][NextLayout]_vars

\* Laid-out documents whose positions are then mapped both ways.
MapParagraphs ==
    { ParagraphNew(<< >>, "none"),
      ParagraphNew(<<"a", " ", "a">>, "none"),
      ParagraphNew(PageBreakMarker, "none"),
      ParagraphNew(ImageMarker \o <<"i">>, "none"),
      ParagraphNew(TableMarker \o <<"t">>, "none") }

InitMap ==
    \E paragraphs \in SeqUpTo(MapParagraphs, MaxParas) :
        LayoutOf([ paragraphs |-> paragraphs,
                   images     |-> << InlineImage >>,
                   tables     |-> << PlacedTable >> ], ConfigFor(2, 8, 1))

NextMap ==
    NextLayout \/ ParaToDisplayPos \/ DisplayToPara \/ GetPageForPosition \/ Return

SpecMap == InitMap /\ [][NextMap]_vars

\* The Engine as Engine::new leaves it, edited and laid out again and again.
InitEngine == LayoutOf(DocumentNew, LayoutConfigNew(10, 10, 1))

NextEngine ==
    \/ SetParagraph
    \/ InsertParagraph
    \/ DeleteParagraph
    \/ AddImage
    \/ InsertImageParagraph
    \/ DeleteImage
    \/ SetPageConfig
    \/ LoadDocument
    \/ RecomputeLayoutClean
    \/ NextLayout
    \/ Return

SpecEngine == InitEngine /\ [][NextEngine]_vars

\* Tables created, referred to by paragraphs, and deleted.
NextTables == CreateTable \/ InsertTableParagraph \/ DeleteTable \/ Return

SpecTables == InitEngine /\ [][NextTables]_vars

\* Every call of the model.  The claims are checked under the component
\* specifications above, each of which moves one part of the document.
Next ==
    \/ MergeCells
    \/ SplitCell
    \/ SetCellText
    \/ AddRow
    \/ AddColumn
    \/ DeleteRow
    \/ DeleteColumn
    \/ ApplyStyle
    \/ ComputeLayout
    \/ LayoutParagraph
    \/ AssignPagePositions
    \/ ParaToDisplayPos
    \/ DisplayToPara
    \/ GetPageForPosition
    \/ SetParagraph
    \/ InsertParagraph
    \/ DeleteParagraph
    \/ AddImage
    \/ InsertImageParagraph
    \/ DeleteImage
    \/ SetPageConfig
    \/ LoadDocument
    \/ RecomputeLayoutClean
    \/ ToggleBold
    \/ ToggleItalic
    \/ SetTextColor
    \/ CreateTable
    \/ InsertTableParagraph
    \/ DeleteTable
    \/ WrapTextForCell
    \/ Return

Spec == Init /\ [][Next]_vars

(***************************************************************************)
(* Vocabulary of the table claims.                                         *)
(***************************************************************************)
Cells(t) ==
    { rc \in (0..(MaxRows + 1)) \X (0..(MaxCols + 1)) : HasCell(t, rc[1], rc[2]) }

Spanning(cell) == cell.row_span > 1 \/ cell.col_span > 1

\* The rectangle of positions an origin at (r, c) claims by its span.
Footprint(r, c, cell) ==
    { ij \in (r..(r + cell.row_span - 1)) \X (c..(c + cell.col_span - 1)) : TRUE }

Rect(start_row, start_col, end_row, end_col) ==
    (start_row..end_row) \X (start_col..end_col)

Plain(cell) ==
    /\ ~cell.covered
    /\ cell.row_span = 1 /\ cell.col_span = 1
    /\ cell.covered_by_row = None /\ cell.covered_by_col = None

CoveredCellsConsistent(t) ==
    \A rc \in Cells(t) :
        LET cell == CellAt(t, rc[1], rc[2])
        IN  cell.covered =>
              /\ cell.row_span = 1 /\ cell.col_span = 1
              /\ cell.covered_by_row # None /\ cell.covered_by_col # None
              /\ HasCell(t, cell.covered_by_row[1], cell.covered_by_col[1])
              /\ LET origin == CellAt(t, cell.covered_by_row[1],
                                         cell.covered_by_col[1])
                 IN  /\ ~origin.covered
                     /\ Spanning(origin)
                     /\ rc \in Footprint(cell.covered_by_row[1],
                                         cell.covered_by_col[1], origin)

OriginsConsistent(t) ==
    \A rc \in Cells(t) :
        LET cell == CellAt(t, rc[1], rc[2])
        IN  /\ Spanning(cell) => ~cell.covered
            /\ is_merge_origin(cell) =>
                 \A ij \in Footprint(rc[1], rc[2], cell) \ {rc} :
                     /\ HasCell(t, ij[1], ij[2])
                     /\ CellAt(t, ij[1], ij[2]).covered
                     /\ CellAt(t, ij[1], ij[2]).covered_by_row = Some(rc[1])
                     /\ CellAt(t, ij[1], ij[2]).covered_by_col = Some(rc[2])

TopologyConsistent(t) == CoveredCellsConsistent(t) /\ OriginsConsistent(t)

\* Span, covered flag and covered-by pointer of every cell.
Topology(t) ==
    [i \in 1..Len(t.rows) |->
        [j \in 1..Len(t.rows[i]) |->
            [ row_span       |-> t.rows[i][j].row_span,
              col_span       |-> t.rows[i][j].col_span,
              covered        |-> t.rows[i][j].covered,
              covered_by_row |-> t.rows[i][j].covered_by_row,
              covered_by_col |-> t.rows[i][j].covered_by_col ]]]

(***************************************************************************)
(* C1.  From a fresh table, after any sequence of merge_cells and          *)
(* split_cell calls the cell topology is consistent: a covered cell is 1x1 *)
(* and points at an in-bounds, uncovered cell with span > 1 whose          *)
(* footprint contains it; no cell with span > 1 is covered; every other    *)
(* cell of an origin's footprint is covered and points at the origin.      *)
(***************************************************************************)
MergeSplitKeepTopology == TopologyConsistent(table)

\* A merge that swallowed an earlier merged region has just succeeded.
MergeOverMergeDone ==
    /\ op.name = "merge_cells" /\ op.ret
    /\ \E rc \in Rect(op.args[1], op.args[2], op.args[3], op.args[4]) :
           /\ rc # <<op.args[1], op.args[2]>>
           /\ is_merge_origin(CellAt(pre.table, rc[1], rc[2]))

(***************************************************************************)
(* C2.  The same topology invariant, with every footprint inside the grid, *)
(* after any interleaving of add_row, add_column, delete_row and           *)
(* delete_column with merge_cells and split_cell.                          *)
(***************************************************************************)
FootprintsInGrid(t) ==
    \A rc \in Cells(t) :
        is_merge_origin(CellAt(t, rc[1], rc[2])) =>
            Footprint(rc[1], rc[2], CellAt(t, rc[1], rc[2])) \subseteq Cells(t)

EditsKeepTopology == TopologyConsistent(table) /\ FootprintsInGrid(table)

(***************************************************************************)
(* C3.  merge_cells(r0,c0,r1,c1) returns false and changes nothing when r1 *)
(* or c1 is out of bounds, r0 > r1 or c0 > c1, a cell of the rectangle is  *)
(* covered by an origin outside the rectangle, or a cell of the rectangle  *)
(* is an origin whose footprint leaves the rectangle; in every other case  *)
(* it returns true.                                                        *)
(***************************************************************************)
CoveredFromOutside(t, rc, start_row, start_col, end_row, end_col) ==
    LET cell == CellAt(t, rc[1], rc[2])
    IN  /\ cell.covered
        /\ cell.covered_by_row # None /\ cell.covered_by_col # None
        /\ <<cell.covered_by_row[1], cell.covered_by_col[1]>>
               \notin Rect(start_row, start_col, end_row, end_col)

OriginLeavesRect(t, rc, start_row, start_col, end_row, end_col) ==
    LET cell == CellAt(t, rc[1], rc[2])
    IN  /\ is_merge_origin(cell)
        /\ ~(Footprint(rc[1], rc[2], cell)
                \subseteq Rect(start_row, start_col, end_row, end_col))

MergeMustFail(t, start_row, start_col, end_row, end_col) ==
    \/ end_row >= num_rows(t)
    \/ end_col >= num_cols(t)
    \/ start_row > end_row
    \/ start_col > end_col
    \/ \E rc \in Rect(start_row, start_col, end_row, end_col) :
           \/ CoveredFromOutside(t, rc, start_row, start_col, end_row, end_col)
           \/ OriginLeavesRect(t, rc, start_row, start_col, end_row, end_col)

MergeFailsExactlyWhenInvalid ==
    op.name = "merge_cells" =>
        IF MergeMustFail(pre.table, op.args[1], op.args[2], op.args[3], op.args[4])
        THEN ~op.ret /\ table = pre.table
        ELSE op.ret

\* A merge was refused because its rectangle cuts through an existing merge.
MergeRefusedOnOverlap ==
    /\ op.name = "merge_cells" /\ ~op.ret
    /\ op.args[3] < num_rows(pre.table) /\ op.args[4] < num_cols(pre.table)
    /\ op.args[1] <= op.args[3] /\ op.args[2] <= op.args[4]
    /\ \E rc \in Rect(op.args[1], op.args[2], op.args[3], op.args[4]) :
           CoveredFromOutside(pre.table, rc, op.args[1], op.args[2],
                              op.args[3], op.args[4])

(***************************************************************************)
(* C4.  After a successful merge_cells the origin is uncovered with span   *)
(* (r1-r0+1, c1-c0+1); every other cell of the rectangle is covered,       *)
(* points at the origin, has empty text and span 1x1; cells outside are    *)
(* unchanged; and the origin's text is the row-major, line-break-joined    *)
(* concatenation of the non-empty texts of the rectangle's cells.          *)
(***************************************************************************)
RECURSIVE JoinLines(_)
JoinLines(texts) ==
    IF texts = << >> THEN << >>
    ELSE IF Len(texts) = 1 THEN texts[1]
    ELSE texts[1] \o <<"\n">> \o JoinLines(Tail(texts))

\* Row-major texts of the rectangle's cells in t, empty ones left out.
RectTexts(t, start_row, start_col, end_row, end_col, uncovered_only) ==
    LET Keep(rc) == /\ CellAt(t, rc[1], rc[2]).text # << >>
                    /\ uncovered_only => ~CellAt(t, rc[1], rc[2]).covered
        kept == SelectSeq(RectCells(start_row, start_col, end_row, end_col), Keep)
    IN  [k \in 1..Len(kept) |-> CellAt(t, kept[k][1], kept[k][2]).text]

MergeShape(before, after, start_row, start_col, end_row, end_col) ==
    /\ Cells(after) = Cells(before)
    /\ \A rc \in Cells(after) :
         LET cell == CellAt(after, rc[1], rc[2])
         IN  IF rc = <<start_row, start_col>>
             THEN /\ ~cell.covered
                  /\ cell.row_span = end_row - start_row + 1
                  /\ cell.col_span = end_col - start_col + 1
             ELSE IF rc \in Rect(start_row, start_col, end_row, end_col)
             THEN /\ cell.covered
                  /\ cell.covered_by_row = Some(start_row)
                  /\ cell.covered_by_col = Some(start_col)
                  /\ cell.text = << >>
                  /\ cell.row_span = 1 /\ cell.col_span = 1
             ELSE cell = CellAt(before, rc[1], rc[2])

\* C4 as stated: the origin's text joins the texts of all cells of the
\* rectangle.
MergeJoinsAllTexts ==
    op.name = "merge_cells" /\ op.ret =>
        /\ MergeShape(pre.table, table,
                      op.args[1], op.args[2], op.args[3], op.args[4])
        /\ CellAt(table, op.args[1], op.args[2]).text =
               JoinLines(RectTexts(pre.table, op.args[1], op.args[2],
                                   op.args[3], op.args[4], FALSE))

\* C4, amended: the origin's text joins the texts of the cells of the
\* rectangle that were not covered before the call.
MergeJoinsUncoveredTexts ==
    op.name = "merge_cells" /\ op.ret =>
        /\ MergeShape(pre.table, table,
                      op.args[1], op.args[2], op.args[3], op.args[4])
        /\ CellAt(table, op.args[1], op.args[2]).text =
               JoinLines(RectTexts(pre.table, op.args[1], op.args[2],
                                   op.args[3], op.args[4], TRUE))

\* A merge has just joined the texts of two cells.
MergeJoinedTwoTexts ==
    /\ op.name = "merge_cells" /\ op.ret
    /\ Len(RectTexts(pre.table, op.args[1], op.args[2],
                     op.args[3], op.args[4], TRUE)) = 2
    /\ "\n" \in { CellAt(table, op.args[1], op.args[2]).text[k] :
                    k \in 1..Len(CellAt(table, op.args[1], op.args[2]).text) }

(***************************************************************************)
(* C5.  split_cell(r,c) returns true exactly when (r,c) is in bounds,      *)
(* uncovered and has span > 1; otherwise it returns false and changes      *)
(* nothing.  On success the origin's span is 1x1 and every cell of its     *)
(* former footprint is uncovered with its covered-by pointer cleared.      *)
(***************************************************************************)
SplitSucceedsExactlyOnOrigins ==
    op.name = "split_cell" =>
        LET r == op.args[1]
            c == op.args[2]
            splittable == /\ HasCell(pre.table, r, c)
                          /\ ~CellAt(pre.table, r, c).covered
                          /\ Spanning(CellAt(pre.table, r, c))
        IN  /\ op.ret = splittable
            /\ ~splittable => table = pre.table
            /\ splittable =>
                 /\ CellAt(table, r, c).row_span = 1
                 /\ CellAt(table, r, c).col_span = 1
                 /\ \A ij \in Footprint(r, c, CellAt(pre.table, r, c))
                                \cap Cells(table) :
                        /\ ~CellAt(table, ij[1], ij[2]).covered
                        /\ CellAt(table, ij[1], ij[2]).covered_by_row = None
                        /\ CellAt(table, ij[1], ij[2]).covered_by_col = None

\* A split of a merged region has just succeeded.
SplitDone ==
    /\ op.name = "split_cell" /\ op.ret
    /\ \E rc \in Cells(pre.table) : CellAt(pre.table, rc[1], rc[2]).covered

(***************************************************************************)
(* C6.  After a successful merge_cells(r0,c0,r1,c1), split_cell(r0,c0)     *)
(* restores the topology the table had before the merge: same rows and     *)
(* columns, and every cell's span, covered flag and covered-by pointer.    *)
(***************************************************************************)
SplitAfterMerge == split_cell(table, op.args[1], op.args[2]).table

\* C6 as stated: merge then split restores the topology before the merge.
MergeThenSplitRestoresTopology ==
    op.name = "merge_cells" /\ op.ret =>
        Topology(SplitAfterMerge) = Topology(pre.table)

RectWasPlain ==
    \A rc \in Rect(op.args[1], op.args[2], op.args[3], op.args[4]) :
        Plain(CellAt(pre.table, rc[1], rc[2]))

\* C6, amended: merge then split leaves the rectangle as plain cells and
\* the rest as before; the topology before the merge is restored when the
\* rectangle held no merged cell.
MergeThenSplitLeavesPlainRect ==
    op.name = "merge_cells" /\ op.ret =>
        /\ Cells(SplitAfterMerge) = Cells(pre.table)
        /\ \A rc \in Cells(pre.table) :
             IF rc \in Rect(op.args[1], op.args[2], op.args[3], op.args[4])
             THEN Plain(CellAt(SplitAfterMerge, rc[1], rc[2]))
             ELSE Topology(SplitAfterMerge)[rc[1] + 1][rc[2] + 1]
                      = Topology(pre.table)[rc[1] + 1][rc[2] + 1]
        /\ RectWasPlain => Topology(SplitAfterMerge) = Topology(pre.table)

\* A merge of several plain cells has succeeded and the split undoes it.
MergeOfPlainCellsDone ==
    /\ op.name = "merge_cells" /\ op.ret
    /\ RectWasPlain
    /\ split_cell(table, op.args[1], op.args[2]).ret

(***************************************************************************)
(* C7.  For every in-bounds (r,c), get_visible_cell(r,c) is the cell       *)
(* itself when it is uncovered and otherwise the uncovered merge origin    *)
(* whose footprint contains (r,c); out of bounds it is nothing.            *)
(***************************************************************************)
VisibleCellIsCellOrOrigin ==
    \A r \in RowArgs, c \in ColArgs :
        LET visible == get_visible_cell(table, r, c)
        IN  IF ~HasCell(table, r, c) THEN visible = None
            ELSE IF ~CellAt(table, r, c).covered
            THEN visible = Some(<<r, c, CellAt(table, r, c)>>)
            ELSE /\ visible # None
                 /\ ~visible[1][3].covered
                 /\ visible[1][3] = CellAt(table, visible[1][1], visible[1][2])
                 /\ <<r, c>> \in Footprint(visible[1][1], visible[1][2],
                                           visible[1][3])

(***************************************************************************)
(* C8.  delete_row(i) returns false and changes nothing when i is out of   *)
(* bounds or the table has one row; delete_column(j) likewise for columns; *)
(* so the table never drops to zero rows or zero columns.                  *)
(***************************************************************************)
DeletionsKeepOneRowAndColumn ==
    /\ op.name = "delete_row"
         /\ (op.args[1] >= num_rows(pre.table) \/ num_rows(pre.table) = 1)
         => ~op.ret /\ table = pre.table
    /\ op.name = "delete_column"
         /\ (op.args[1] >= num_cols(pre.table) \/ num_cols(pre.table) = 1)
         => ~op.ret /\ table = pre.table
    /\ num_rows(table) >= 1
    /\ num_cols(table) >= 1
    /\ \A i \in 1..num_rows(table) : Len(table.rows[i]) >= 1

\* The only row of a table was named for deletion and the call refused.
LastRowDeletionRefused ==
    /\ op.name = "delete_row" /\ ~op.ret
    /\ op.args[1] < num_rows(pre.table)
    /\ pre.table.rows[1][1].covered \/ Spanning(pre.table.rows[1][1])

(***************************************************************************)
(* C9.  From a paragraph with no style runs, after any sequence of         *)
(* apply_style calls the run list is sorted by start, its runs do not      *)
(* overlap, every run has start < end, no run is unformatted, and no two   *)
(* runs that touch (end = start) have identical attributes.                *)
(***************************************************************************)
RunsWellFormed(runs) ==
    /\ \A i \in 1..Len(runs) :
          /\ runs[i].start < runs[i].end
          /\ has_formatting(runs[i])
    /\ \A i \in 1..Len(runs), j \in 1..Len(runs) :
          i < j => /\ runs[i].start <= runs[j].start
                   /\ runs[i].end <= runs[j].start
    /\ \A i \in 1..Len(runs), j \in 1..Len(runs) :
          runs[i].end = runs[j].start => ~SameFormatting(runs[i], runs[j])

StyleRunsWellFormed == RunsWellFormed(styles)

\* A call has just restyled the middle of one run, leaving three.
RunSplitInThree ==
    /\ op.name = "apply_style"
    /\ Len(pre.styles) = 1
    /\ Len(styles) = 3

(***************************************************************************)
(* C10.  apply_style is idempotent: calling apply_style(start, end,        *)
(* modifier) a second time leaves the run list as the first call left it.  *)
(***************************************************************************)
AppliedAgain == apply_style(styles, op.args[1], op.args[2], op.args[3])

\* C10 as stated: a second identical call changes nothing, for any modifier.
ApplyStyleTwiceIsOnce == op.name = "apply_style" => AppliedAgain = styles

\* C10, amended: a second identical call changes nothing when the modifier
\* assigns fields values fixed before the call.
ApplySetStyleTwiceIsOnce ==
    op.name = "apply_style" /\ op.args[3] \in SetModifiers =>
        AppliedAgain = styles

\* A set-modifier has just changed runs that were there before the call.
SetStyleChangedRuns ==
    /\ op.name = "apply_style" /\ op.args[3] \in SetModifiers
    /\ op.args[1] < op.args[2]
    /\ Len(pre.styles) >= 2
    /\ styles # pre.styles
    /\ \E i \in 1..Len(pre.styles) :
           overlaps(pre.styles[i], op.args[1], op.args[2])

(***************************************************************************)
(* C11.  After apply_style(start, end, modifier) with start < end, every   *)
(* position of [start, end) carries the modifier applied once to what the  *)
(* position had before: to the attributes of the run that covered it, or   *)
(* to the unformatted default when it lay in a gap; the position is left   *)
(* without a run exactly when that result is unformatted.  This holds for  *)
(* every modifier, one that reads the run's attributes included.           *)
(***************************************************************************)
FormattingOf(style) == [style EXCEPT !.start = 0, !.end = 0]

AttributesAt(runs, pos) ==
    IF style_at(runs, pos) = None THEN TextStyleNew(0, 0)
    ELSE FormattingOf(style_at(runs, pos)[1])

ModifiedOnceAt(pos) ==
    LET expected == Modify(op.args[3], AttributesAt(pre.styles, pos))
    IN  /\ AttributesAt(styles, pos) = expected
        /\ (style_at(styles, pos) = None) <=> ~has_formatting(expected)

ApplyStyleModifiesOnce ==
    op.name = "apply_style" /\ op.args[1] < op.args[2] =>
        \A pos \in op.args[1]..(op.args[2] - 1) : ModifiedOnceAt(pos)

\* The same, for modifiers that assign a field a value fixed before the call.
ApplySetStyleModifiesOnce ==
    op.name = "apply_style" /\ op.args[1] < op.args[2]
        /\ op.args[3] \in SetModifiers =>
            \A pos \in op.args[1]..(op.args[2] - 1) : ModifiedOnceAt(pos)

(***************************************************************************)
(* Vocabulary of the layout claims.                                        *)
(***************************************************************************)
Paragraphs == document.paragraphs

\* Paragraph indices count from 0, as para_index does.
ParaAt(p) == Paragraphs[p + 1]

ParaIndices == 0..(Len(Paragraphs) - 1)

LineIndices == 0..(Len(display_lines) - 1)

LineAt(i) == display_lines[i + 1]

LinesOf(p) == { i \in LineIndices : LineAt(i).para_index = p }

LaidOut == pc = "done"

Numbered(p) == ParaAt(p).meta.list_type = "numbered"

\* A marker paragraph whose line is a marker line: a page break, or an image
\* or table that the document holds.
PlacedMarker(p) ==
    \/ is_page_break(ParaAt(p))
    \/ table_id(ParaAt(p)) # None
          /\ FindById(document.tables, table_id(ParaAt(p))[1]) # None
    \/ image_id(ParaAt(p)) # None
          /\ FindById(document.images, image_id(ParaAt(p))[1]) # None

\* A marker paragraph that names an image or table the document lacks.
DanglingMarker(p) ==
    /\ is_image(ParaAt(p)) \/ is_table(ParaAt(p))
    /\ ~PlacedMarker(p)

(***************************************************************************)
(* C12.  Within one layout pass, list numbers count consecutive numbered   *)
(* paragraphs 1, 2, 3, ... and restart at 1 after any paragraph that is    *)
(* not numbered, a bullet paragraph as much as one with no list type.      *)
(***************************************************************************)
\* The numbered paragraphs that end at p without a break.
NumberedRun(p) ==
    { q \in 0..p : \A r \in q..p : Numbered(r) }

ListNumbersRestartAfterNonNumbered ==
    LaidOut =>
        \A p \in ParaIndices : Numbered(p) =>
            \E i \in LinesOf(p) :
                /\ LineAt(i).start_offset = 0
                /\ LineAt(i).list_number = Some(Cardinality(NumberedRun(p)))

\* What the layout does: only a paragraph laid out as text with no list
\* type restarts the count; bullets and placed markers leave it running.
Restarts(p) == ParaAt(p).meta.list_type = "none" /\ ~PlacedMarker(p)

CountedRun(p) ==
    { q \in 0..p : Numbered(q) /\ ~PlacedMarker(q)
                     /\ \A r \in q..p : ~Restarts(r) }

ListNumbersRestartAfterPlainText ==
    LaidOut =>
        \A p \in ParaIndices : Numbered(p) /\ ~PlacedMarker(p) =>
            \E i \in LinesOf(p) :
                /\ LineAt(i).start_offset = 0
                /\ LineAt(i).list_number = Some(Cardinality(CountedRun(p)))

(***************************************************************************)
(* C13.  A marker paragraph naming an image or table id that the document  *)
(* does not hold is recovered silently: layout emits no visible display    *)
(* line for it (no line with text, image or table content), while the      *)
(* paragraph still occupies its offset range so that its positions remain  *)
(* mappable.                                                               *)
(***************************************************************************)
Visible(dl) == dl.text # << >> \/ dl.is_image \/ dl.is_table

OccupiesItsRange(p) ==
    \E i \in LinesOf(p) :
        /\ LineAt(i).start_offset = 0
        /\ LineAt(i).end_offset = Len(ParaAt(p).text)

DanglingMarkersLeaveNoVisibleLine ==
    LaidOut =>
        \A p \in ParaIndices : DanglingMarker(p) =>
            /\ \A i \in LinesOf(p) : ~Visible(LineAt(i))
            /\ OccupiesItsRange(p)

\* What the layout does: the marker falls through to the text wrapper and
\* its bytes come out as the text of an ordinary line.
DanglingMarkersLaidOutAsText ==
    LaidOut =>
        \A p \in ParaIndices : DanglingMarker(p) =>
            \A i \in LinesOf(p) :
                /\ LineAt(i).text = Slice(ParaAt(p).text, LineAt(i).start_offset,
                                          LineAt(i).end_offset)
                /\ LineAt(i).text # << >>
                /\ ~LineAt(i).is_image /\ ~LineAt(i).is_table

(***************************************************************************)
(* C14.  Layout is total: for every well-formed document (any mix of       *)
(* empty paragraphs, text paragraphs of arbitrary Unicode text, multi-byte *)
(* characters included, and marker paragraphs) and every valid             *)
(* configuration, compute_layout completes without aborting and returns a  *)
(* display-line sequence; an empty text paragraph yields exactly one line, *)
(* with range [0,0) and flagged as last line.                              *)
(***************************************************************************)
EmptyParagraphHasOneLine(p) ==
    /\ Cardinality(LinesOf(p)) = 1
    /\ \A i \in LinesOf(p) :
          /\ LineAt(i).start_offset = 0
          /\ LineAt(i).end_offset = 0
          /\ LineAt(i).is_last_line

EmptyParagraphsHaveOneLine ==
    LaidOut =>
        \A p \in ParaIndices : ParaAt(p).text = << >> => EmptyParagraphHasOneLine(p)

LayoutIsTotal ==
    /\ pc # "aborted"
    /\ EmptyParagraphsHaveOneLine

\* Where the layout aborts: on a paragraph laid out as text that holds a
\* multi-byte character and does not fit on one line.
HasMultiByte(text) == \E k \in 1..Len(text) : text[k] \in ContinuationBytes

LayoutAbortsOnMultiByteOnly ==
    pc = "aborted" =>
        /\ HasMultiByte(ParaAt(para_idx - 1).text)
        /\ ~PlacedMarker(para_idx - 1)

(***************************************************************************)
(* C15.  When the remaining text of a paragraph does not fit the available *)
(* width, the wrapper ends the line just after the last space that         *)
(* precedes the first character exceeding the width (the next line starts  *)
(* with the character after that space), and only when no such space       *)
(* exists does it break mid-word before the overflowing character.         *)
(* "Hello World" in a column that exactly fits "Hello " gives "Hello "     *)
(* [0,6) and "World" [6,11), the second flagged last-line.                 *)
(***************************************************************************)
\* The width the wrapper had for a line of a text paragraph.
AvailableWidth(dl) ==
    LET para == ParaAt(dl.para_index)
        list_indent == IF para.meta.list_type # "none"
                       THEN (config.font_size * 3) \div 2 ELSE 0
        float_width == IF dl.float_reduction = None THEN 0
                       ELSE dl.float_reduction[1].width + 10
    IN  column_width(config) - list_indent - float_width

WidthFrom(dl, to) ==
    measure_text(Slice(ParaAt(dl.para_index).text, dl.start_offset, to),
                 config.font_size, config.letter_spacing)

\* The line was cut because the text left for it did not fit.
Overflows(dl) ==
    WidthFrom(dl, Len(ParaAt(dl.para_index).text)) > AvailableWidth(dl)

\* The offset of the first character that exceeds the width.
FirstOverflow(dl) ==
    CHOOSE q \in dl.start_offset..(Len(ParaAt(dl.para_index).text) - 1) :
        /\ WidthFrom(dl, q + 1) > AvailableWidth(dl)
        /\ \A r \in dl.start_offset..(q - 1) : WidthFrom(dl, r + 1) <= AvailableWidth(dl)

\* Offsets of the spaces of the line's paragraph from the line's start up to `last`.
SpacesUpTo(dl, last) ==
    { j \in dl.start_offset..last : ParaAt(dl.para_index).text[j + 1] = " " }

MaxOf(S) == CHOOSE m \in S : \A n \in S : n <= m

TextLines == { i \in LineIndices : ~PlacedMarker(LineAt(i).para_index) }

\* C15 as stated: the space must precede the overflowing character, and the
\* mid-word break comes before that character.
BreaksAfterSpaceBeforeOverflow(dl) ==
    LET q == FirstOverflow(dl)
    IN  dl.end_offset = IF SpacesUpTo(dl, q - 1) # {}
                        THEN MaxOf(SpacesUpTo(dl, q - 1)) + 1
                        ELSE q

LinesBreakAfterSpaceBeforeOverflow ==
    LaidOut =>
        \A i \in TextLines :
            Overflows(LineAt(i)) => BreaksAfterSpaceBeforeOverflow(LineAt(i))

\* C15, amended: the last space counted may be the overflowing character
\* itself, which then ends the line, and a mid-word break never leaves the
\* line empty: a first character wider than the line is taken alone.
BreaksAfterSpaceUpToOverflow(dl) ==
    LET q == FirstOverflow(dl)
    IN  dl.end_offset = IF SpacesUpTo(dl, q) # {}
                        THEN MaxOf(SpacesUpTo(dl, q)) + 1
                        ELSE Max(q, dl.start_offset + 1)

LinesBreakAfterSpaceUpToOverflow ==
    LaidOut =>
        \A i \in TextLines :
            /\ LineAt(i).text = Slice(ParaAt(LineAt(i).para_index).text,
                                      LineAt(i).start_offset, LineAt(i).end_offset)
            /\ IF Overflows(LineAt(i))
               THEN BreaksAfterSpaceUpToOverflow(LineAt(i))
               ELSE /\ LineAt(i).end_offset = Len(ParaAt(LineAt(i).para_index).text)
                    /\ LineAt(i).is_last_line
            /\ i + 1 \in LinesOf(LineAt(i).para_index) =>
                  LineAt(i + 1).start_offset = LineAt(i).end_offset

\* The example of the claim, laid out.
HelloWorldLaidOut ==
    /\ LaidOut
    /\ Paragraphs = << ParagraphNew(HelloWorld, "none") >>
    /\ column_width(config) = 6

HelloWorldInTwoLines ==
    HelloWorldLaidOut =>
        /\ Len(display_lines) = 2
        /\ LineAt(0).text = <<"H", "e", "l", "l", "o", " ">>
        /\ LineAt(0).start_offset = 0 /\ LineAt(0).end_offset = 6
        /\ ~LineAt(0).is_last_line
        /\ LineAt(1).text = <<"W", "o", "r", "l", "d">>
        /\ LineAt(1).start_offset = 6 /\ LineAt(1).end_offset = 11
        /\ LineAt(1).is_last_line

\* A line was cut after a space that was itself the first character past
\* the width, with words on both sides of it.
LineEndedByOverflowingSpace ==
    /\ LaidOut
    /\ \E i \in TextLines :
          /\ Overflows(LineAt(i))
          /\ FirstOverflow(LineAt(i)) > LineAt(i).start_offset
          /\ ParaAt(LineAt(i).para_index).text[FirstOverflow(LineAt(i)) + 1] = " "
          /\ LineAt(i).end_offset = FirstOverflow(LineAt(i)) + 1
          /\ ~LineAt(i).is_last_line

(***************************************************************************)
(* C16.  A move-with-text float image (square/tight/through) whose marker  *)
(* is laid out when n display lines already exist emits one zero-height    *)
(* marker line and is active on exactly the line indices                   *)
(* [n+1, n+1+ceil(croppedHeight/lineHeight)): every text line with an      *)
(* index in that interval carries a float reduction and has its available  *)
(* width reduced by the float width plus 10, and, with no other float      *)
(* present, no line outside the interval is reduced.                       *)
(***************************************************************************)
IsTextLine(dl) == ~dl.is_page_break /\ ~dl.is_image /\ ~dl.is_table

ImageOf(dl) == FindById(document.images, dl.image_id[1])[1]

\* The marker lines of floats that move with the text.
FloatMarkers ==
    { n \in LineIndices :
        /\ LineAt(n).is_image
        /\ is_float(ImageOf(LineAt(n)).wrap_style)
        /\ ImageOf(LineAt(n)).position_mode = "move-with-text" }

FloatLines(n) ==
    LET height == cropped_height(ImageOf(LineAt(n)))
    IN  IF height <= 0 THEN 0 ELSE CeilDiv(height, line_height_px(config))

FloatInterval(n) == (n + 1)..(n + FloatLines(n))

FloatWidth(n) == Min(ImageOf(LineAt(n)).width, column_width(config))

ZeroHeightMarker(n) ==
    /\ LineAt(n).image_height = Some(0)
    /\ LinesOf(LineAt(n).para_index) = {n}

\* The line was cut at the width its float reduction leaves.
CutAtAvailableWidth(dl) ==
    IF Overflows(dl) THEN BreaksAfterSpaceUpToOverflow(dl)
    ELSE dl.end_offset = Len(ParaAt(dl.para_index).text)

ReducedBy(dl, width) ==
    /\ dl.float_reduction # None
    /\ dl.float_reduction[1].width = width
    /\ AvailableWidth(dl) = column_width(config) - (width + 10)
    /\ CutAtAvailableWidth(dl)

NoReductionOutside(n) ==
    Len(active_floats) = 1 =>
        \A i \in LineIndices \ FloatInterval(n) : LineAt(i).float_reduction = None

\* C16 as stated.
FloatReducesItsInterval ==
    LaidOut =>
        \A n \in FloatMarkers :
            /\ ZeroHeightMarker(n)
            /\ \A i \in FloatInterval(n) \cap LineIndices :
                  IsTextLine(LineAt(i)) => ReducedBy(LineAt(i), FloatWidth(n))
            /\ NoReductionOutside(n)

\* Another active float than the one registered for marker n reaches line i.
OtherFloatReaches(n, i) ==
    \E k \in 1..Len(active_floats) :
        /\ ~(active_floats[k].y_start = None /\ active_floats[k].start_line = n + 1)
        /\ FloatHits(active_floats[k], i, i * line_height_px(config),
                     line_height_px(config))

\* C16, amended: a text line in the interval always carries a float
\* reduction and is cut at the width that reduction leaves; the reduction
\* is this float's when no other float reaches the line (the lookup
\* returns one float, the first registered that reaches the line).
FloatReducesItsIntervalUnlessOverlaid ==
    LaidOut =>
        \A n \in FloatMarkers :
            /\ ZeroHeightMarker(n)
            /\ \A i \in FloatInterval(n) \cap LineIndices :
                  IsTextLine(LineAt(i)) =>
                      /\ LineAt(i).float_reduction # None
                      /\ CutAtAvailableWidth(LineAt(i))
                      /\ ~OtherFloatReaches(n, i) =>
                              ReducedBy(LineAt(i), FloatWidth(n))
            /\ NoReductionOutside(n)

\* A single float whose interval ends among the lines of one paragraph: the
\* line inside is reduced, the line after it is not.
FloatIntervalEndsAmongText ==
    /\ LaidOut
    /\ Len(active_floats) = 1
    /\ \E n \in FloatMarkers :
          /\ FloatLines(n) > 0
          /\ n + FloatLines(n) + 1 \in LineIndices
          /\ LineAt(n + FloatLines(n)).para_index = LineAt(n + FloatLines(n) + 1).para_index
          /\ ReducedBy(LineAt(n + FloatLines(n)), FloatWidth(n))
          /\ LineAt(n + FloatLines(n) + 1).float_reduction = None

(***************************************************************************)
(* C17.  Pagination never goes backwards: along the display-line sequence  *)
(* the pair (page_index, column_index) is lexicographically                *)
(* non-decreasing, column_index stays below the configured column count,   *)
(* and once a line has overflowed its column and been moved to the next    *)
(* column or page, no later line is assigned to the old column or page.    *)
(***************************************************************************)
NotBefore(a, b) ==
    \/ a.page_index < b.page_index
    \/ a.page_index = b.page_index /\ a.column_index <= b.column_index

StrictlyBefore(a, b) ==
    \/ a.page_index < b.page_index
    \/ a.page_index = b.page_index /\ a.column_index < b.column_index

\* Where the column stands filled once the line is placed.
BottomOf(dl) == dl.y_position + this_line_height(dl, config) + spacing_after(dl, config)

\* The line after dl does not fit under it in dl's column.
OverflowsAfter(dl, next) ==
    /\ ~dl.is_page_break /\ ~next.is_page_break
    /\ BottomOf(dl) + this_line_height(next, config) > content_height(config)

PaginationNeverGoesBack ==
    LaidOut =>
        /\ \A i \in LineIndices, j \in LineIndices :
              i < j => NotBefore(LineAt(i), LineAt(j))
        /\ \A i \in LineIndices : LineAt(i).column_index < config.columns
        /\ \A i \in LineIndices, j \in LineIndices :
              /\ i < j
              /\ OverflowsAfter(LineAt(i), LineAt(i + 1)) \/ LineAt(i).is_page_break
              => StrictlyBefore(LineAt(i), LineAt(j))

\* Lines have overflowed into the second column and then onto the next page.
OverflowedColumnThenPage ==
    /\ LaidOut
    /\ \A i \in LineIndices : ~LineAt(i).is_page_break
    /\ \E i \in LineIndices :
          /\ i + 2 \in LineIndices
          /\ LineAt(i).page_index = 0 /\ LineAt(i).column_index = 0
          /\ LineAt(i + 1).page_index = 0 /\ LineAt(i + 1).column_index = 1
          /\ LineAt(i + 2).page_index = 1 /\ LineAt(i + 2).column_index = 0

(***************************************************************************)
(* C18.  Position mapping round-trips: for every display line L of a       *)
(* computed layout (a text line or the marker line of a page break, image  *)
(* or table) and every offset o with L.start_offset <= o <= L.end_offset,  *)
(* display_to_para(para_to_display_pos(L.para_index, o)) returns           *)
(* (L.para_index, o).                                                      *)
(***************************************************************************)
\* The lines whose range holds the position.
LinesHolding(para, offset) ==
    { i \in LinesOf(para) :
        LineAt(i).start_offset <= offset /\ offset <= LineAt(i).end_offset }

MappedBack == display_to_para(display_lines, op.ret.line, op.ret.col)

PositionsRoundTrip ==
    LaidOut /\ op.name = "para_to_display_pos"
        /\ LinesHolding(op.args[1], op.args[2]) # {} =>
            MappedBack = [ para |-> op.args[1], offset |-> op.args[2] ]

\* What holds: the round trip on the lines of paragraphs laid out as text.
TextPositionsRoundTrip ==
    LaidOut /\ op.name = "para_to_display_pos"
        /\ LinesHolding(op.args[1], op.args[2]) # {}
        /\ ~PlacedMarker(op.args[1]) =>
            MappedBack = [ para |-> op.args[1], offset |-> op.args[2] ]

(***************************************************************************)
(* C19.  display_to_para(line, col) clamps both coordinates: for any line  *)
(* and col on a non-empty line sequence it returns (L.para_index,          *)
(* L.start_offset + min(col, length of L.text)) where L is the display     *)
(* line at index min(line, lineCount - 1).                                 *)
(***************************************************************************)
ClampedInto(dl, col) ==
    [ para |-> dl.para_index, offset |-> dl.start_offset + Min(col, Len(dl.text)) ]

\* C19 as stated: the line index is clamped like the column.
DisplayToParaClampsBoth ==
    op.name = "display_to_para" /\ display_lines # << >> =>
        op.ret = ClampedInto(LineAt(Min(op.args[1], Len(display_lines) - 1)),
                             op.args[2])

\* C19, amended: the column is clamped into the text of the line when the
\* line index is that of a display line; past the last line the column is
\* not looked at (see C20).
DisplayToParaClampsColumn ==
    op.name = "display_to_para" /\ op.args[1] < Len(display_lines) =>
        op.ret = ClampedInto(LineAt(op.args[1]), op.args[2])

\* A column past the end of a line of text has been clamped to its end.
ColumnClampedToLineEnd ==
    /\ op.name = "display_to_para"
    /\ op.args[1] < Len(display_lines)
    /\ LineAt(op.args[1]).text # << >>
    /\ op.args[2] > Len(LineAt(op.args[1]).text)
    /\ op.ret.offset = LineAt(op.args[1]).end_offset

(***************************************************************************)
(* C20.  When the line index passed to display_to_para is at or beyond the *)
(* number of display lines, the result is the end of the document: the     *)
(* last line's paragraph index together with the last line's end offset,   *)
(* whatever col is; with no display lines at all the result is (0,0).      *)
(***************************************************************************)
DisplayToParaPastEndIsDocumentEnd ==
    op.name = "display_to_para" /\ op.args[1] >= Len(display_lines) =>
        op.ret = IF display_lines # << >>
                 THEN [ para   |-> display_lines[Len(display_lines)].para_index,
                        offset |-> display_lines[Len(display_lines)].end_offset ]
                 ELSE [ para |-> 0, offset |-> 0 ]

\* A position past the last line, in a column inside the last line's text,
\* has been mapped to the end of that line.
MappedPastLastLine ==
    /\ op.name = "display_to_para"
    /\ display_lines # << >>
    /\ op.args[1] >= Len(display_lines)
    /\ op.args[2] < Len(display_lines[Len(display_lines)].text)
    /\ op.ret.offset = display_lines[Len(display_lines)].end_offset

\* A position has been mapped before any layout was computed.
MappedWithoutLines ==
    /\ op.name = "display_to_para"
    /\ display_lines = << >>
    /\ op.args[1] > 0 /\ op.args[2] > 0

(***************************************************************************)
(* C21.  para_to_display_pos(para, offset) returns the lowest-index        *)
(* display line whose para_index equals para and whose range contains      *)
(* offset with the end inclusive, with col = offset - start; when no line  *)
(* matches it returns the last line's index and the last line's text       *)
(* length, and (0,0) when there are no lines.  get_page_for_position       *)
(* returns the page of that line (0 when there are no lines).              *)
(***************************************************************************)
\* The display position the claim describes for a paragraph position.
FirstLineHolding(para, offset) ==
    LET holding == LinesHolding(para, offset)
    IN  IF holding # {}
        THEN LET i == CHOOSE i \in holding : \A j \in holding : i <= j
             IN  [ line |-> i, col |-> offset - LineAt(i).start_offset ]
        ELSE IF display_lines = << >>
        THEN [ line |-> 0, col |-> 0 ]
        ELSE [ line |-> Len(display_lines) - 1,
               col  |-> Len(LineAt(Len(display_lines) - 1).text) ]

ParaPositionsMapToFirstLineHolding ==
    /\ op.name = "para_to_display_pos" =>
            op.ret = FirstLineHolding(op.args[1], op.args[2])
    /\ op.name = "get_page_for_position" =>
            op.ret = IF display_lines = << >> THEN 0
                     ELSE LineAt(FirstLineHolding(op.args[1], op.args[2]).line)
                              .page_index

\* The end of one line is the start of the next line of the paragraph, and
\* the position was mapped to the earlier of the two.
MappedToEarlierOfTwoLines ==
    /\ op.name = "para_to_display_pos"
    /\ LaidOut
    /\ \E i, j \in LinesHolding(op.args[1], op.args[2]) : i < j
    /\ op.ret.col > 0

\* A position that no line holds has been given the page of the last line,
\* which is not the first page.
StalePositionOnLastPage ==
    /\ op.name = "get_page_for_position"
    /\ LaidOut
    /\ LinesHolding(op.args[1], op.args[2]) = {}
    /\ op.ret > 0

(***************************************************************************)
(* C22.  Every Engine call that changes the document or the layout         *)
(* configuration marks the cached layout stale, so that after any sequence *)
(* of such calls followed by recompute_layout the cached display lines     *)
(* equal the layout of the current document and configuration; the cache   *)
(* is never reported clean (recompute_layout returning false) while it     *)
(* differs from what a fresh layout would produce.                         *)
(***************************************************************************)
\* The display lines the Engine holds are those of its document and
\* configuration.
CacheIsFresh ==
    LET fresh == compute_layout(document, config)
    IN  ~fresh.panic /\ display_lines = fresh.lines

\* C22 as stated: between calls, a cache that is not fresh is marked stale.
StaleCacheIsMarked ==
    /\ EngineReady /\ ~dirty => CacheIsFresh
    /\ op.name = "recompute_layout" /\ op.ret = FALSE => CacheIsFresh

\* What holds: a cache not marked stale differs from the fresh layout only in
\* what images added since have changed.
CacheIsFreshButForImages ==
    pc \in {"idle", "done"} /\ ~dirty =>
        \E n \in 0..Len(document.images) :
            LET before == [document EXCEPT !.images = SubSeq(@, 1, n)]
            IN  display_lines = compute_layout(before, config).lines

(***************************************************************************)
(* C23.  When load_document fails to decode its input it returns an error  *)
(* and leaves the engine's in-memory document, configuration, cached       *)
(* display lines and dirty flag exactly as they were; only a successful    *)
(* decode replaces the document and marks the layout stale.                *)
(***************************************************************************)
\* The step is a call of load_document.
LoadsDocument == op.name = "idle" /\ op'.name = "load_document"

FailedLoadChangesNothing ==
    [][ LoadsDocument =>
          LET decoded == from_str(op'.args[1])
          IN  IF decoded = None
              THEN /\ op'.ret = FALSE
                   /\ UNCHANGED <<document, config, display_lines, dirty>>
              ELSE /\ op'.ret = TRUE
                   /\ document' = decoded[1]
                   /\ dirty' = TRUE
                   /\ UNCHANGED <<config, display_lines>> ]_vars

\* A text that does not decode was loaded into an Engine whose layout was
\* up to date: the edited document and its layout are still there.
FailedLoadOnCleanEngine ==
    /\ op.name = "load_document"
    /\ op.ret = FALSE
    /\ ~dirty
    /\ document # DocumentNew
    /\ display_lines # << >>

(***************************************************************************)
(* C24.  Engine.toggle_bold(para, start, end) with start<end toggles bold  *)
(* over the range: if the whole range is already bold it removes bold from *)
(* every position in the range, and otherwise (some position in the range  *)
(* is not bold, including a range with no formatting at all) it makes      *)
(* every position in the range bold.  The same holds for toggle_italic,    *)
(* toggle_underline and toggle_strikethrough on their fields.              *)
(***************************************************************************)
ToggledRange == op.args[1]..(op.args[2] - 1)

\* The field a toggle call is about, in the attributes at a position.
ToggledField(runs, pos) ==
    IF op.name = "toggle_bold" THEN AttributesAt(runs, pos).bold
    ELSE AttributesAt(runs, pos).italic

\* C24 as stated: the field is cleared over the range when every position
\* of the range had it, and set over the range otherwise.
ToggleSetsUnlessWholeRangeSet ==
    op.name \in {"toggle_bold", "toggle_italic"} /\ op.args[1] < op.args[2] =>
        LET whole == \A pos \in ToggledRange : ToggledField(pre.styles, pos)
        IN  \A pos \in ToggledRange : ToggledField(styles, pos) = ~whole

\* What holds: only the positions that lie in a run are looked at, so that
\* a range without runs counts as having the field everywhere.
ToggleSetsUnlessEveryRunSet ==
    op.name \in {"toggle_bold", "toggle_italic"} /\ op.args[1] < op.args[2] =>
        LET whole == \A pos \in ToggledRange :
                        style_at(pre.styles, pos) # None =>
                            ToggledField(pre.styles, pos)
        IN  \A pos \in ToggledRange : ToggledField(styles, pos) = ~whole

(***************************************************************************)
(* C25.  Table ids are unique: after any sequence of create_table and      *)
(* delete_table calls on an Engine, the ids of the tables held by the      *)
(* document are pairwise distinct, i.e. create_table never returns an id   *)
(* that another existing table already has, so a table marker paragraph    *)
(* always refers to exactly one table.                                     *)
(***************************************************************************)
TablesWithId(id) ==
    { k \in 1..Len(document.tables) : document.tables[k].id = id }

TableIdsAreUnique ==
    /\ \A i, j \in 1..Len(document.tables) :
            document.tables[i].id = document.tables[j].id => i = j
    /\ \A p \in ParaIndices :
            table_id(ParaAt(p)) # None =>
                Cardinality(TablesWithId(table_id(ParaAt(p))[1])) <= 1

\* What holds: the id returned is "table_" and the number of tables the
\* document held when create_table was called.
CreatedIdCountsTables ==
    op.name = "create_table" =>
        /\ op.ret = TableIdFor(Len(document.tables) - 1)
        /\ document.tables[Len(document.tables)].id = op.ret

(***************************************************************************)
(* C26.  Wrapping always terminates: for every paragraph text (and every   *)
(* table cell text) and every available width, including widths that are   *)
(* zero or negative and a first character wider than the line, each        *)
(* iteration of the wrap loop emits a line covering at least one           *)
(* character, so the loop finishes after at most as many lines as the text *)
(* has characters.                                                         *)
(***************************************************************************)
\* The paragraph has been cut into lines of at least one character each.
ParagraphCutIntoLines(p) ==
    /\ \A i \in LinesOf(p) :
          chars_count(Slice(ParaAt(p).text, LineAt(i).start_offset,
                            LineAt(i).end_offset)) >= 1
    /\ Cardinality(LinesOf(p)) <= chars_count(ParaAt(p).text)

\* The same of a cell text without line feeds, which is wrapped as one piece.
CellCutIntoLines(text, wrapped) ==
    /\ ~wrapped.panic
    /\ text # << >> /\ (\A k \in 1..Len(text) : text[k] # "\n") =>
          /\ \A k \in 1..Len(wrapped.lines) : chars_count(wrapped.lines[k]) >= 1
          /\ Len(wrapped.lines) <= chars_count(text)

\* C26 as stated.
WrappingEmitsLines ==
    /\ pc # "aborted"
    /\ LaidOut =>
          \A p \in ParaIndices : ParaAt(p).text # << >> => ParagraphCutIntoLines(p)
    /\ op.name = "wrap_text_for_cell" => CellCutIntoLines(op.args[1], op.ret)

\* What holds: the same of texts of one-byte characters.
WrappingOfOneByteTextEmitsLines ==
    /\ pc = "aborted" => HasMultiByte(ParaAt(para_idx - 1).text)
    /\ LaidOut =>
          \A p \in ParaIndices : ParaAt(p).text # << >> => ParagraphCutIntoLines(p)
    /\ op.name = "wrap_text_for_cell" /\ ~HasMultiByte(op.args[1]) =>
          CellCutIntoLines(op.args[1], op.ret)

\* A text of one-byte characters none of which fits the width has been cut
\* into one line per character.
OneLinePerCharacter ==
    /\ op.name = "wrap_text_for_cell"
    /\ op.args[2] < 0
    /\ Len(op.args[1]) = MaxLen
    /\ Len(op.ret.lines) = MaxLen

(***************************************************************************)
(* C27.  The display lines of a non-empty plain-text paragraph tile its    *)
(* text: the first line starts at offset 0, every following line starts at *)
(* the previous line's end offset, the last line ends at the text length,  *)
(* each line's text is the paragraph text of its range, only the first     *)
(* line carries the list number, and exactly the final line is flagged     *)
(* is_last_line.                                                           *)
(***************************************************************************)
FirstLineOf(p) == CHOOSE i \in LinesOf(p) : \A j \in LinesOf(p) : i <= j

FinalLineOf(p) == CHOOSE i \in LinesOf(p) : \A j \in LinesOf(p) : j <= i

LinesTile(p) ==
    /\ LinesOf(p) # {}
    /\ LinesOf(p) = FirstLineOf(p)..FinalLineOf(p)
    /\ LineAt(FirstLineOf(p)).start_offset = 0
    /\ LineAt(FinalLineOf(p)).end_offset = Len(ParaAt(p).text)
    /\ \A i \in LinesOf(p) :
          /\ i # FirstLineOf(p) =>
                /\ LineAt(i).start_offset = LineAt(i - 1).end_offset
                /\ LineAt(i).list_number = None
          /\ LineAt(i).text = Slice(ParaAt(p).text, LineAt(i).start_offset,
                                    LineAt(i).end_offset)
          /\ LineAt(i).is_last_line <=> i = FinalLineOf(p)

\* A paragraph laid out as text: not the marker of a page break, nor of an
\* image or table of the document.
TextParagraphsTile ==
    LaidOut =>
        \A p \in ParaIndices :
            ParaAt(p).text # << >> /\ ~PlacedMarker(p) => LinesTile(p)

\* A numbered paragraph has been cut into several lines, the final one by
\* the break-point search.
NumberedParagraphInSeveralLines ==
    /\ LaidOut
    /\ \E p \in ParaIndices :
          /\ Numbered(p)
          /\ Cardinality(LinesOf(p)) = Len(ParaAt(p).text)
          /\ Len(ParaAt(p).text) > 1
          /\ LineAt(FirstLineOf(p)).list_number # None

(***************************************************************************)
(* C28.  A page-break line is assigned the paginator's current (page,      *)
(* column, y) and adds no height; the paginator state then becomes         *)
(* (page+1, column 0, y=0), so the next display line, if its height fits a *)
(* column, is placed on the following page in column 0 at y=0 regardless   *)
(* of how much room was left.                                              *)
(***************************************************************************)
PlaceOf(dl) ==
    [ page |-> dl.page_index, column |-> dl.column_index, y |-> dl.y_position ]

\* The paginator's position when it comes to line i: the top of the first
\* page, the top of the page after a page break, or the place under the
\* line before.
PaginatorAt(i) ==
    IF i = 0 THEN [ page |-> 0, column |-> 0, y |-> 0 ]
    ELSE LET before == LineAt(i - 1)
         IN  IF before.is_page_break
             THEN [ page |-> before.page_index + 1, column |-> 0, y |-> 0 ]
             ELSE [ page   |-> before.page_index,
                    column |-> before.column_index,
                    y      |-> before.y_position + this_line_height(before, config)
                                   + spacing_after(before, config) ]

FitsColumn(dl) == this_line_height(dl, config) <= content_height(config)

PageBreakStartsNextPage ==
    LaidOut =>
        \A i \in LineIndices :
            LineAt(i).is_page_break =>
                /\ PlaceOf(LineAt(i)) = PaginatorAt(i)
                /\ i + 1 \in LineIndices
                        /\ (LineAt(i + 1).is_page_break \/ FitsColumn(LineAt(i + 1))) =>
                      PlaceOf(LineAt(i + 1)) =
                          [ page |-> LineAt(i).page_index + 1, column |-> 0, y |-> 0 ]

\* A page break met where the column had room for the line after it, which
\* is at the top of the next page.
PageBreakLeftRoom ==
    /\ LaidOut
    /\ \E i \in LineIndices :
          /\ LineAt(i).is_page_break
          /\ i + 1 \in LineIndices
          /\ ~LineAt(i + 1).is_page_break
          /\ LineAt(i).y_position + this_line_height(LineAt(i + 1), config)
                <= content_height(config)
          /\ LineAt(i + 1).page_index = LineAt(i).page_index + 1
          /\ LineAt(i + 1).y_position = 0

(***************************************************************************)
(* C29.  Every positioned line other than a page break fits its column     *)
(* whenever it can: if its effective height (line-height units times       *)
(* lineHeight for image/table lines, lineHeight otherwise) is at most the  *)
(* column content height, then its assigned y satisfies 0 <= y and         *)
(* y + effectiveHeight <= content height; a line is moved to the next      *)
(* column (or, from the last column, to the next page at column 0) only    *)
(* when y + effectiveHeight would exceed the content height, and paragraph *)
(* spacing is added after a line only when it is a last line with non-zero *)
(* height.                                                                 *)
(***************************************************************************)
\* The height of an image or table line is held in pixels: its line-height
\* units times the line height.
EffectiveHeight(dl) ==
    IF (dl.is_image \/ dl.is_table) /\ dl.image_height # None
    THEN dl.image_height[1]
    ELSE line_height_px(config)

\* Where the paginator stands after line i - 1, by the rules of the claim.
ReachedBefore(i) ==
    IF i = 0 THEN [ page |-> 0, column |-> 0, y |-> 0 ]
    ELSE LET before == LineAt(i - 1)
             spacing == IF before.is_last_line /\ EffectiveHeight(before) > 0
                        THEN config.paragraph_spacing ELSE 0
         IN  IF before.is_page_break
             THEN [ page |-> before.page_index + 1, column |-> 0, y |-> 0 ]
             ELSE [ page   |-> before.page_index,
                    column |-> before.column_index,
                    y      |-> before.y_position + EffectiveHeight(before)
                                   + spacing ]

\* The top of the column after the one reached.
ColumnAfter(at) ==
    IF at.column < config.columns - 1
    THEN [ page |-> at.page, column |-> at.column + 1, y |-> 0 ]
    ELSE [ page |-> at.page + 1, column |-> 0, y |-> 0 ]

LinesFitTheirColumn ==
    LaidOut =>
        \A i \in LineIndices :
            ~LineAt(i).is_page_break =>
                LET dl == LineAt(i)
                    at == ReachedBefore(i)
                IN  /\ EffectiveHeight(dl) <= content_height(config) =>
                          /\ 0 <= dl.y_position
                          /\ dl.y_position + EffectiveHeight(dl)
                                <= content_height(config)
                    /\ PlaceOf(dl) =
                          IF at.y + EffectiveHeight(dl) > content_height(config)
                          THEN ColumnAfter(at) ELSE at

\* A line that is not the last of its paragraph is followed at once, in the
\* same column, by the next, which ends the paragraph; the line after that
\* did not fit under the spacing and was moved to the next column.
LineMovedUnderSpacing ==
    /\ LaidOut
    /\ \E i \in LineIndices :
          /\ i + 2 \in LineIndices
          /\ ~LineAt(i).is_last_line /\ ~LineAt(i).is_page_break
          /\ LineAt(i + 1).is_last_line
          /\ LineAt(i + 1).column_index = LineAt(i).column_index
          /\ LineAt(i + 1).y_position
                = LineAt(i).y_position + EffectiveHeight(LineAt(i))
          /\ LineAt(i + 1).y_position + EffectiveHeight(LineAt(i + 1))
                = content_height(config)
          /\ ~LineAt(i + 2).is_page_break
          /\ LineAt(i + 2).y_position = 0

(***************************************************************************)
(* C30.  apply_style(start,end,modifier) changes nothing outside its       *)
(* range: for every position p with p<start or p>=end the attributes       *)
(* returned by style_at(p) are the same before and after the call (runs    *)
(* straddling a boundary keep their prefix/suffix formatting), and when     *)
(* start>=end the run list is left completely unchanged.                   *)
(***************************************************************************)
\* The positions a run of the model can hold.
Positions == 0..MaxLen

\* What style_at returns at a position, but for the bounds of the run.
StyleAtLooks(runs, pos) ==
    IF style_at(runs, pos) = None THEN None
    ELSE Some(FormattingOf(style_at(runs, pos)[1]))

ApplyStyleKeepsOutside ==
    op.name = "apply_style" =>
        /\ \A pos \in Positions :
              pos < op.args[1] \/ pos >= op.args[2] =>
                  StyleAtLooks(styles, pos) = StyleAtLooks(pre.styles, pos)
        /\ op.args[1] >= op.args[2] => styles = pre.styles

\* The range lay inside a run, which reached past it on both sides, and
\* the call changed the run list.
AppliedInsideARun ==
    /\ op.name = "apply_style"
    /\ styles # pre.styles
    /\ \E k \in 1..Len(pre.styles) :
          /\ pre.styles[k].start < op.args[1]
          /\ pre.styles[k].end > op.args[2]
    /\ style_at(styles, op.args[1] - 1) # None
    /\ style_at(styles, op.args[2]) # None

\* A call with an empty or reversed range was made on formatted text.
AppliedToEmptyRange ==
    /\ op.name = "apply_style"
    /\ op.args[1] >= op.args[2]
    /\ pre.styles # << >>

=============================================================================
